---------------------------- MODULE Spec2Model ----------------------------
(***************************************************************************)
(* Model of the price-feed core: the OHLC candle cache (OHLCCache) and the *)
(* KuCoin feed connector (DataFeedManager) that writes ticks into it.      *)
(*                                                                         *)
(* Node.js runs every handler to completion; a handler is one action, and  *)
(* an async function is cut at its awaits.  Sockets, timers and HTTP       *)
(* requests in flight are the runtime state the handlers are driven by.    *)
(***************************************************************************)
EXTENDS Integers, Sequences, FiniteSets, TLC

VARIABLES
    ohlc,    \* the OHLCCache object: cache, currentCandles, lastTick, errors
    clock,   \* Date.now()
    ticks,   \* the direct updateTick calls made: how many, and the arguments of the last
    feed,    \* the DataFeedManager object and the runtime objects it owns
    inbox,   \* the socket message whose 'message' event is being dispatched, or null
    ret      \* the last direct call on the cache: operation, arguments and result,
             \* and how many loadHistoricalBars calls were made

vars == <<ohlc, clock, ticks, feed, inbox, ret>>

-----------------------------------------------------------------------------
(* Bounds of the model *)

MaxSockets == 2      \* sockets that exist at once and are not closed
MaxPending == 2      \* reconnect timeouts pending at once; bootstraps in flight at once
MaxLeaked == 1       \* ping (renewal) intervals left active without a handle
MaxTicks == 3        \* updateTick calls in one run of a cache specification
MaxLoads == 1        \* loadHistoricalBars calls in one run of a cache specification
MaxCalls == 3        \* loadHistoricalBars calls and feed ticks together in one run
MaxErrors == 1       \* recordError calls in one run
MaxProbes == 2       \* calls that change the cache in one run with untracked keys allowed

(* The tracked symbols (a subset of the twelve) and the four timeframes *)
Symbols == {"btc", "matic"}
Timeframes == {"1m", "5m", "15m", "1h"}

(* JavaScript numbers: prices are integers here.  Infinity is above every   *)
(* finite price and NaN is a value apart from every price; an absent       *)
(* object (null) is the empty sequence and a present one <<object>>.       *)
Infinity == 10^9
NaN == 0 - 10^9 - 1
null == << >>

Max(a, b) == IF a >= b THEN a ELSE b
Min(a, b) == IF a <= b THEN a ELSE b

RECURSIVE Pow2(_)
Pow2(n) == IF n <= 0 THEN 1 ELSE 2 * Pow2(n - 1)

-----------------------------------------------------------------------------
(* OHLCCache *)

maxBars == 2

getTimeframeMs(tf) ==
    CASE tf = "1m" -> 60 * 1000
      [] tf = "5m" -> 5 * 60 * 1000
      [] tf = "15m" -> 15 * 60 * 1000
      [] tf = "1h" -> 60 * 60 * 1000
      [] OTHER -> 60 * 1000

OHLCCacheNew ==
    [ cache |-> [s \in Symbols |-> [tf \in Timeframes |-> << >>]],
      currentCandles |-> [s \in Symbols |-> [tf \in Timeframes |-> null]],
      lastTick |-> [s \in Symbols |-> null],   \* { price: null, time: null, source: null }
      errors |-> [s \in Symbols |-> 0] ]

\* A faulty addCompletedCandle, to test the sensitivity of C15: at capacity the
\* candle pushed last is the one dropped (pop in place of shift).
addCompletedCandleEvictsNewest(c, symbol, timeframe, candle) ==
    LET pushed == Append(c.cache[symbol][timeframe], candle)
        kept == IF Len(pushed) > maxBars THEN SubSeq(pushed, 1, maxBars) ELSE pushed
    IN [c EXCEPT !.cache[symbol][timeframe] = kept]

\* cache.push(candle); if (cache.length > maxBars) cache.shift()
addCompletedCandle(c, symbol, timeframe, candle) ==
    LET pushed == Append(c.cache[symbol][timeframe], candle)
        kept == IF Len(pushed) > maxBars THEN Tail(pushed) ELSE pushed
    IN [c EXCEPT !.cache[symbol][timeframe] = kept]

\* A faulty updateOHLC, to test the sensitivity of C12: the update in place sets
\* high to the price of the tick.
updateOHLCHighIsPrice(c, symbol, timeframe, price, timestamp) ==
    LET tfMs == getTimeframeMs(timeframe)
        candleStart == (timestamp \div tfMs) * tfMs
        current == c.currentCandles[symbol][timeframe]
        fresh == <<[time |-> candleStart, open |-> price, high |-> price,
                    low |-> price, close |-> price, volume |-> 0]>>
    IN IF current = null
       THEN [c EXCEPT !.currentCandles[symbol][timeframe] = fresh]
       ELSE IF current[1].time # candleStart
       THEN [addCompletedCandle(c, symbol, timeframe, current[1])
                EXCEPT !.currentCandles[symbol][timeframe] = fresh]
       ELSE [c EXCEPT !.currentCandles[symbol][timeframe] =
                   <<[current[1] EXCEPT !.high = price,
                                        !.low = Min(current[1].low, price),
                                        !.close = price]>>]

\* A faulty updateOHLC, to test the sensitivity of C13: a rollover drops the
\* current candle instead of appending it to the completed ones.
updateOHLCDropsCurrent(c, symbol, timeframe, price, timestamp) ==
    LET tfMs == getTimeframeMs(timeframe)
        candleStart == (timestamp \div tfMs) * tfMs
        current == c.currentCandles[symbol][timeframe]
    IN IF current = null \/ current[1].time # candleStart
       THEN [c EXCEPT !.currentCandles[symbol][timeframe] =
                   <<[time |-> candleStart, open |-> price, high |-> price,
                      low |-> price, close |-> price, volume |-> 0]>>]
       ELSE [c EXCEPT !.currentCandles[symbol][timeframe] =
                   <<[current[1] EXCEPT !.high = Max(current[1].high, price),
                                        !.low = Min(current[1].low, price),
                                        !.close = price]>>]

updateOHLC(c, symbol, timeframe, price, timestamp) ==
    LET tfMs == getTimeframeMs(timeframe)
        candleStart == (timestamp \div tfMs) * tfMs
        current == c.currentCandles[symbol][timeframe]
    IN IF current = null \/ current[1].time # candleStart
       THEN LET c1 == IF current # null
                      THEN addCompletedCandle(c, symbol, timeframe, current[1])
                      ELSE c
            IN [c1 EXCEPT !.currentCandles[symbol][timeframe] =
                   <<[time |-> candleStart, open |-> price, high |-> price,
                      low |-> price, close |-> price, volume |-> 0]>>]
       ELSE [c EXCEPT !.currentCandles[symbol][timeframe] =
                   <<[current[1] EXCEPT !.high = Max(current[1].high, price),
                                        !.low = Min(current[1].low, price),
                                        !.close = price]>>]

\* timestamp || Date.now(): the timestamp argument is null when omitted and
\* <<t>> when given; JavaScript replaces null and 0 alike by the clock
tickTime(timestamp, dateNow) ==
    IF timestamp = null \/ timestamp[1] = 0 THEN dateNow ELSE timestamp[1]

\* this.currentCandles[symbol][timeframe] of a symbol that is not tracked:
\* this.currentCandles[symbol] is undefined and the read throws a TypeError
updateTickThrows(c, symbol) == symbol \notin DOMAIN c.currentCandles

\* The cache after updateTick; when it throws, the cache as the exception leaves
\* it: this.lastTick[symbol] is assigned (a new key for a symbol not tracked)
updateTick(c, symbol, price, source, timestamp, dateNow) ==
    LET now == tickTime(timestamp, dateNow)
        tick == [price |-> price, time |-> now, source |-> source]
        c0 == [c EXCEPT !.lastTick = (symbol :> <<tick>>) @@ c.lastTick]
        c1 == updateOHLC(c0, symbol, "1m", price, now)
        c2 == updateOHLC(c1, symbol, "5m", price, now)
        c3 == updateOHLC(c2, symbol, "15m", price, now)
    IN IF updateTickThrows(c, symbol) THEN c0
       ELSE updateOHLC(c3, symbol, "1h", price, now)

\* return this.lastTick[symbol]: undefined for a symbol that has no key
getLatestPrice(c, symbol) ==
    IF symbol \in DOMAIN c.lastTick
    THEN [kind |-> "value", value |-> c.lastTick[symbol]]
    ELSE [kind |-> "undefined", value |-> null]

\* Array.prototype.slice(start): from index start to the end; a negative start
\* counts from the end, and -0 is 0, the whole array
slice(array, start) ==
    LET len == Len(array)
        begin == IF start < 0 THEN Max(len + start, 0) ELSE Min(start, len)
    IN SubSeq(array, begin + 1, len)

\* !this.cache[symbol] || !this.cache[symbol][timeframe]
noSuchKey(c, symbol, timeframe) ==
    \/ symbol \notin DOMAIN c.cache
    \/ timeframe \notin DOMAIN c.cache[symbol]

getBars(c, symbol, timeframe, count) ==
    IF noSuchKey(c, symbol, timeframe) THEN << >>
    ELSE slice(c.cache[symbol][timeframe], 0 - count)

\* A faulty getStaleSymbols, to test the sensitivity of C19: a tick exactly
\* maxAgeMs old already counts as stale (>= in place of >).
getStaleSymbolsAtAge(c, maxAgeMs, dateNow) ==
    {symbol \in Symbols :
        LET tick == c.lastTick[symbol]
        IN tick = null \/ tick[1].time = 0 \/ dateNow - tick[1].time >= maxAgeMs}

\* the symbols whose tick has no time (null, or 0) or one older than maxAgeMs
getStaleSymbols(c, maxAgeMs, dateNow) ==
    {symbol \in Symbols :
        LET tick == c.lastTick[symbol]
        IN tick = null \/ tick[1].time = 0 \/ dateNow - tick[1].time > maxAgeMs}

\* this.errors[symbol] = (this.errors[symbol] || 0) + 1
recordError(c, symbol) ==
    LET count == IF symbol \in DOMAIN c.errors THEN c.errors[symbol] ELSE 0
    IN [c EXCEPT !.errors = (symbol :> count + 1) @@ c.errors]

loadHistoricalBars(c, symbol, timeframe, bars, dateNow) ==
    IF noSuchKey(c, symbol, timeframe) THEN c
    ELSE LET c1 == [c EXCEPT !.cache[symbol][timeframe] = slice(bars, 0 - maxBars)]
             lastBar == bars[Len(bars)]
         IN IF Len(bars) > 0
            THEN [c1 EXCEPT !.lastTick[symbol] =
                     <<[price |-> lastBar.close,
                        time |-> IF lastBar.time = 0 THEN dateNow ELSE lastBar.time,
                        source |-> "historical"]>>]
            ELSE c1

\* no direct call made yet
NoCall == [op |-> "none", args |-> << >>, kind |-> "undefined", value |-> null, loads |-> 0]

\* no updateTick call made yet
NoTicks == [n |-> 0, symbol |-> "btc", price |-> 0, source |-> "", timestamp |-> null]

-----------------------------------------------------------------------------
(* DataFeedManager: the object, and the runtime objects it owns.           *)
(*                                                                         *)
(* Every socket created by connectKuCoinWebSocket keeps its four handlers  *)
(* for life, whether or not this.ws still refers to it.  ws is the state   *)
(* of the socket this.ws refers to ("none" while this.ws is null); the     *)
(* other sockets that are not closed yet are counted in orphans, by state. *)
(* An open socket is "openOk" when exactly one subscribe message was sent  *)
(* on it and "openBad" otherwise; wsSubs counts the subscribe messages     *)
(* sent on the socket of this.ws and wsOrig is the caller that created it, *)
(* both until that socket starts closing.                                  *)
(*                                                                         *)
(* pingInterval and tokenRenewalInterval say whether the object holds the  *)
(* handle of an active interval; pingLeaked and renewLeaked count the      *)
(* active intervals whose handle was overwritten.  reconnectTimers counts  *)
(* the pending setTimeout callbacks of scheduleReconnect and bootstraps    *)
(* the connectKuCoinWebSocket calls waiting for the bullet-public          *)
(* response, by who made the call.                                         *)
(***************************************************************************)

Origins == {"init", "retry", "renew"}
OrphanStates == {"connecting", "openOk", "openBad", "closing"}

wsReconnectDelay == 5000
wsMaxReconnectAttempts == 10

DataFeedManagerNew ==
    [ wsReconnectAttempts |-> 0,
      wsConnected |-> FALSE,
      pingInterval |-> FALSE,
      tokenRenewalInterval |-> FALSE,
      fallbackInterval |-> FALSE,
      \* runtime
      ws |-> "none",
      wsSubs |-> 0,
      wsOrig |-> "init",
      orphans |-> [k \in OrphanStates |-> 0],
      pingLeaked |-> 0,
      renewLeaked |-> 0,
      reconnectTimers |-> 0,
      lastDelay |-> 0,               \* the delay of the last pending setTimeout of scheduleReconnect
      bootstraps |-> [o \in Origins |-> 0],
      fallbackActive |-> FALSE,      \* the setInterval of startFallbackPolling is running
      fallbackInitial |-> FALSE,     \* its 5 s setTimeout is pending
      crashed |-> FALSE,             \* an exception left a handler: the process is gone
      pcInit |-> "constructed",      \* initialize(): constructed, awaitConnect, done
      pcShutdown |-> "no" ]          \* shutdown(): no, saving, done

InFlight(f) == f.bootstraps["init"] + f.bootstraps["retry"] + f.bootstraps["renew"]

Orphans(f) ==
    f.orphans["connecting"] + f.orphans["openOk"] + f.orphans["openBad"] + f.orphans["closing"]

Live(f) == Orphans(f) + (IF f.ws \in {"connecting", "open", "closing"} THEN 1 ELSE 0)

InBounds(f) ==
    /\ f.reconnectTimers <= MaxPending
    /\ InFlight(f) <= MaxPending
    /\ Live(f) <= MaxSockets
    /\ f.pingLeaked <= MaxLeaked
    /\ f.renewLeaked <= MaxLeaked

\* wsReconnectDelay * Math.pow(2, Math.min(attempts - 1, 5))
reconnectDelay(attempts) == wsReconnectDelay * Pow2(Min(attempts - 1, 5))

scheduleReconnect(f) ==
    IF f.wsReconnectAttempts >= wsMaxReconnectAttempts
    THEN f
    ELSE LET n == f.wsReconnectAttempts + 1
         IN [f EXCEPT !.wsReconnectAttempts = n,
                      !.reconnectTimers = @ + 1,
                      !.lastDelay = reconnectDelay(n)]

stopPing(f) == IF f.pingInterval THEN [f EXCEPT !.pingInterval = FALSE] ELSE f

stopTokenRenewal(f) ==
    IF f.tokenRenewalInterval THEN [f EXCEPT !.tokenRenewalInterval = FALSE] ELSE f

\* this.pingInterval = setInterval(...): a handle held before is overwritten and
\* its interval stays active
startPing(f) ==
    [f EXCEPT !.pingInterval = TRUE,
              !.pingLeaked = IF f.pingInterval THEN @ + 1 ELSE @]

scheduleTokenRenewal(f) ==
    [f EXCEPT !.tokenRenewalInterval = TRUE,
              !.renewLeaked = IF f.tokenRenewalInterval THEN @ + 1 ELSE @]

\* this.ws.close() of the ws library: a socket that is connecting or open starts
\* closing and emits 'close' later; a closing or closed one is left alone
wsClose(f) ==
    IF f.ws \in {"connecting", "open"}
    THEN [f EXCEPT !.ws = "closing", !.wsSubs = 0, !.wsOrig = "init"]
    ELSE f

\* this.ws.send(subscribe) of the ws library: on an open socket the message goes
\* out; on a connecting socket send throws; on a closing or closed one it throws
\* (ws before 7) or drops the message (ws 7 and later), lib says which
wsSendSubscribe(f, lib) ==
    CASE f.ws = "open" -> [f EXCEPT !.wsSubs = Min(@ + 1, 2)]
      [] f.ws = "connecting" -> [f EXCEPT !.crashed = TRUE]
      [] OTHER -> IF lib = "throw" THEN [f EXCEPT !.crashed = TRUE] ELSE f

\* connectKuCoinWebSocket up to its await of the bullet-public request
connectKuCoinWebSocket(f, o) == [f EXCEPT !.bootstraps[o] = @ + 1]

\* startFallbackPolling: a 5 s timeout and the 2 min interval
startFallbackPolling(f) ==
    [f EXCEPT !.fallbackInitial = TRUE, !.fallbackInterval = TRUE, !.fallbackActive = TRUE]

\* initialize() after its await of connectKuCoinWebSocket
initializeResume(f, o) ==
    IF o = "init" THEN [startFallbackPolling(f) EXCEPT !.pcInit = "done"] ELSE f

\* the socket this.ws referred to, once this.ws refers to another one
Orphaned(f) ==
    CASE f.ws \in {"connecting", "closing"} ->
           [f EXCEPT !.orphans[f.ws] = @ + 1]
      [] f.ws = "open" ->
           [f EXCEPT !.orphans[IF f.wsSubs = 1 THEN "openOk" ELSE "openBad"] = @ + 1]
      [] OTHER -> f

\* the response is good: this.ws = new WebSocket(wsUrl), the handlers are attached
connectOpened(f, o) ==
    initializeResume(
        [Orphaned(f) EXCEPT !.bootstraps[o] = @ - 1, !.ws = "connecting",
                            !.wsSubs = 0, !.wsOrig = o], o)

\* A faulty catch block, to test the sensitivity of C5: it retries the bootstrap
\* at once instead of scheduling a reconnect.
connectFailedTightLoop(f, o) ==
    initializeResume(connectKuCoinWebSocket([f EXCEPT !.bootstraps[o] = @ - 1], "retry"), o)

\* the request failed, or the response was not OK, or its code was not 200000:
\* catch (error) { this.scheduleReconnect() }
connectFailed(f, o) ==
    initializeResume(scheduleReconnect([f EXCEPT !.bootstraps[o] = @ - 1]), o)

\* A faulty open handler, to test the sensitivity of C4: it leaves the attempt
\* counter as it is.
onWebSocketOpenNoReset(f, lib) ==
    LET f1 == [f EXCEPT !.wsConnected = TRUE]
        f2 == wsSendSubscribe(f1, lib)
    IN IF f2.crashed THEN f2 ELSE scheduleTokenRenewal(startPing(f2))

onWebSocketOpen(f, lib) ==
    LET f1 == [f EXCEPT !.wsConnected = TRUE, !.wsReconnectAttempts = 0]
        f2 == wsSendSubscribe(f1, lib)
    IN IF f2.crashed THEN f2 ELSE scheduleTokenRenewal(startPing(f2))

onWebSocketClose(f) ==
    scheduleReconnect(stopTokenRenewal(stopPing([f EXCEPT !.wsConnected = FALSE])))

\* the setInterval callback of startPing: a ping goes out on this.ws if it is open
pingTick(f) == f

\* the setInterval callback of scheduleTokenRenewal
renewalTick(f) == connectKuCoinWebSocket(wsClose(f), "renew")

\* shutdown() after its await of saveHistoricalCache
shutdownResume(f) ==
    LET f1 == stopTokenRenewal(stopPing(wsClose(f)))
    IN [f1 EXCEPT !.fallbackActive = IF f1.fallbackInterval THEN FALSE ELSE @,
                  !.pcShutdown = "done"]

-----------------------------------------------------------------------------
(* Actions of the feed connector *)

KeepCache == UNCHANGED <<ohlc, clock, ticks, inbox, ret>>

Step(f) == ~feed.crashed /\ inbox = null /\ InBounds(f) /\ feed' = f /\ KeepCache

Initialize ==
    /\ feed.pcInit = "constructed"
    /\ Step(connectKuCoinWebSocket([feed EXCEPT !.pcInit = "awaitConnect"], "init"))

BootstrapOk ==
    \E o \in Origins :
        /\ feed.bootstraps[o] > 0
        /\ Step(connectOpened(feed, o))

BootstrapFail ==
    \E o \in Origins :
        /\ feed.bootstraps[o] > 0
        /\ Step(connectFailed(feed, o))

\* 'open' on the socket this.ws refers to
SocketOpen ==
    /\ feed.ws = "connecting"
    /\ Step(onWebSocketOpen([feed EXCEPT !.ws = "open"], "drop"))

\* 'open' on a socket this.ws no longer refers to: no subscribe reaches it
OrphanOpen ==
    \E lib \in {"drop", "throw"} :
        /\ feed.orphans["connecting"] > 0
        /\ Step(onWebSocketOpen([feed EXCEPT !.orphans["connecting"] = @ - 1,
                                             !.orphans["openBad"] = @ + 1], lib))

\* 'error' is only logged (onWebSocketError); the library closes the socket after it
SocketError ==
    /\ feed.ws \in {"connecting", "open"}
    /\ Step([feed EXCEPT !.ws = "closing", !.wsSubs = 0, !.wsOrig = "init"])

OrphanError ==
    \E k \in {"connecting", "openOk", "openBad"} :
        /\ feed.orphans[k] > 0
        /\ Step([feed EXCEPT !.orphans[k] = @ - 1, !.orphans["closing"] = @ + 1])

\* 'close' on the socket this.ws refers to
SocketClose ==
    /\ feed.ws \in {"open", "closing"}
    /\ Step(onWebSocketClose([feed EXCEPT !.ws = "closed", !.wsSubs = 0, !.wsOrig = "init"]))

OrphanClose ==
    \E k \in {"openOk", "openBad", "closing"} :
        /\ feed.orphans[k] > 0
        /\ Step(onWebSocketClose([feed EXCEPT !.orphans[k] = @ - 1]))

PingFire ==
    /\ feed.pingInterval \/ feed.pingLeaked > 0
    /\ Step(pingTick(feed))

RenewalFire ==
    /\ feed.tokenRenewalInterval \/ feed.renewLeaked > 0
    /\ Step(renewalTick(feed))

ReconnectFire ==
    /\ feed.reconnectTimers > 0
    /\ Step(connectKuCoinWebSocket(
                [feed EXCEPT !.reconnectTimers = @ - 1,
                             !.lastDelay = IF feed.reconnectTimers = 1 THEN 0 ELSE @], "retry"))

\* shutdown() of a manager that initialize() has started
ShutdownBegin ==
    /\ feed.pcInit = "done"
    /\ feed.pcShutdown = "no"
    /\ Step([feed EXCEPT !.pcShutdown = "saving"])

ShutdownFinish ==
    /\ feed.pcShutdown = "saving"
    /\ Step(shutdownResume(feed))

InitFeed ==
    /\ ohlc = OHLCCacheNew
    /\ clock = 1
    /\ ticks = NoTicks
    /\ feed = DataFeedManagerNew
    /\ inbox = null
    /\ ret = NoCall

NextFeed ==
    \/ Initialize
    \/ BootstrapOk
    \/ BootstrapFail
    \/ SocketOpen
    \/ OrphanOpen
    \/ SocketError
    \/ OrphanError
    \/ SocketClose
    \/ OrphanClose
    \/ PingFire
    \/ RenewalFire
    \/ ReconnectFire
    \/ ShutdownBegin
    \/ ShutdownFinish

SpecFeed == InitFeed /\ [][NextFeed]_vars

-----------------------------------------------------------------------------
(* Socket messages.  A message is the text the socket delivers: json says  *)
(* whether JSON.parse throws ("malformed"), yields null, or yields an      *)
(* object with the fields below; "absent" is a field that is undefined.    *)
(* The three price fields hold the strings KuCoin sends.                   *)
(***************************************************************************)

absent == "absent"
TickerTopic == "/market/ticker:all"

kucoinSymbolMap(symbol) ==
    CASE symbol = "btc" -> "BTC-USDT"
      [] symbol = "matic" -> "POL-USDT"

Subjects == {"BTC-USDT", "POL-USDT", "MATIC-USDT", absent}
AskVals == {absent, "", "0", "abc", "-1", "Infinity", "100"}
PriceVals == {absent, "-1"}
BidVals == {absent, "100"}

NoFields == [subject |-> absent, data |-> FALSE, bestAsk |-> absent,
             price |-> absent, bestBid |-> absent]

Messages ==
    {[json |-> j, type |-> absent, topic |-> absent] @@ NoFields :
        j \in {"malformed", "null"}}
    \cup {[json |-> "object", type |-> t, topic |-> absent] @@ NoFields :
        t \in {"welcome", "pong", "ack", absent}}
    \cup {[json |-> "object", type |-> "message", topic |-> "/market/snapshot:BTC-USDT",
           subject |-> "BTC-USDT", data |-> TRUE, bestAsk |-> "100",
           price |-> absent, bestBid |-> absent]}
    \cup {[json |-> "object", type |-> "message", topic |-> TickerTopic,
           subject |-> sub, data |-> FALSE, bestAsk |-> absent,
           price |-> absent, bestBid |-> absent] : sub \in Subjects}
    \cup {[json |-> "object", type |-> "message", topic |-> TickerTopic,
           subject |-> sub, data |-> TRUE, bestAsk |-> a, price |-> p, bestBid |-> b] :
           sub \in Subjects, a \in AskVals, p \in PriceVals, b \in BidVals}

\* JavaScript: undefined and "" are falsy, every other string is truthy
Truthy(v) == v \notin {absent, ""}

\* JavaScript: false for 0 and NaN
TruthyNumber(x) == x # 0 /\ x # NaN

isNaN(x) == x = NaN

parseFloat(v) ==
    CASE v = "0" -> 0
      [] v = "-1" -> 0 - 1
      [] v = "100" -> 100
      [] v = "Infinity" -> Infinity
      [] OTHER -> NaN

\* Object.keys(kucoinSymbolMap).find(key => kucoinSymbolMap[key] === symbol):
\* the set holds the key found, and is empty when find returns undefined
findSymbol(subject) == {key \in Symbols : kucoinSymbolMap(key) = subject}

\* message.data.bestAsk || message.data.price || message.data.bestBid
extractPrice(message) ==
    parseFloat(IF Truthy(message.bestAsk) THEN message.bestAsk
               ELSE IF Truthy(message.price) THEN message.price
               ELSE message.bestBid)

\* The result of a handler on the cache: the cache after it, and whether an
\* exception left the handler.
Done(c) == [ohlc |-> c, thrown |-> FALSE]
Thrown(c) == [ohlc |-> c, thrown |-> TRUE]

handleTickerUpdate(c, message, dateNow) ==
    IF ~message.data
    THEN Thrown(c)     \* message.data.bestAsk: TypeError
    ELSE LET price == extractPrice(message)
             found == findSymbol(message.subject)
         IN IF found # {} /\ TruthyNumber(price) /\ ~isNaN(price)
            THEN Done(updateTick(c, CHOOSE k \in found : TRUE, price, "kucoin-ws", null, dateNow))
            ELSE Done(c)

\* try { ... } catch (error) { console.error(...) }
onWebSocketMessage(c, message, dateNow) ==
    CASE message.json = "malformed" -> Done(c)        \* JSON.parse throws, caught
      [] message.json = "null" -> Done(c)             \* message.type: TypeError, caught
      [] message.type = "welcome" -> Done(c)
      [] message.type = "pong" -> Done(c)
      [] message.type = "message" /\ message.topic = TickerTopic ->
           Done(handleTickerUpdate(c, message, dateNow).ohlc)
      [] OTHER -> Done(c)

\* A message arrives on an open socket (every open socket has the handler)
MessageArrives ==
    \E m \in Messages :
        /\ ~feed.crashed
        /\ inbox = null
        /\ feed.ws = "open" \/ feed.orphans["openOk"] + feed.orphans["openBad"] > 0
        /\ inbox' = <<m>>
        /\ UNCHANGED <<ohlc, clock, ticks, feed, ret>>

MessageHandled ==
    /\ ~feed.crashed
    /\ inbox # null
    /\ LET r == onWebSocketMessage(ohlc, inbox[1], clock)
       IN /\ ohlc' = r.ohlc
          /\ feed' = [feed EXCEPT !.crashed = r.thrown]
    /\ inbox' = null
    /\ UNCHANGED <<clock, ticks, ret>>

\* The connector on a network on which a socket fails only by closing, with no
\* renewal (12 h) and no shutdown in the run: one socket at a time.
NextMsg ==
    \/ Initialize
    \/ BootstrapOk
    \/ SocketOpen
    \/ SocketClose
    \/ ReconnectFire
    \/ MessageArrives
    \/ MessageHandled

SpecMsg == InitFeed /\ [][NextMsg]_vars

-----------------------------------------------------------------------------
(* The cache under direct calls: updateTick with every symbol, price,      *)
(* source and timestamp of the sets below (null is the omitted timestamp), *)
(* and the clock moving on between calls.                                  *)
(***************************************************************************)

TickPrices == {99, 100, 101}
TickSources == {"kucoin-ws", "coingecko"}
TickTimes == {null, <<0>>, <<60000>>, <<120000>>}
ClockTimes == {180000, 300000}

Bucket(t, tf) == (t \div getTimeframeMs(tf)) * getTimeframeMs(tf)

UpdateTick ==
    \E s \in Symbols, p \in TickPrices, src \in TickSources, t \in TickTimes :
        /\ ticks.n < MaxTicks
        /\ ohlc' = updateTick(ohlc, s, p, src, t, clock)
        /\ ticks' = [n |-> ticks.n + 1, symbol |-> s, price |-> p, source |-> src,
                      timestamp |-> t]
        /\ UNCHANGED <<clock, feed, inbox, ret>>

ClockAdvance ==
    \E t \in ClockTimes :
        /\ t > clock
        /\ clock' = t
        /\ UNCHANGED <<ohlc, ticks, feed, inbox, ret>>

InitCache ==
    /\ ohlc = OHLCCacheNew
    /\ clock = 180000
    /\ ticks = NoTicks
    /\ feed = DataFeedManagerNew
    /\ inbox = null
    /\ ret = NoCall

NextCache ==
    \/ UpdateTick
    \/ ClockAdvance

SpecCache == InitCache /\ [][NextCache]_vars

-----------------------------------------------------------------------------
(* The cache as the data layer fills it: bars loaded in bulk (from the     *)
(* disk snapshot or the backfill) and ticks as the feeds deliver them,     *)
(* updateTick(symbol, price, source) with no timestamp.                    *)
(***************************************************************************)

AllSymbols == Symbols \cup {"foo"}
AllTimeframes == Timeframes \cup {"1d"}

\* The i-th bar of a loaded series: one minute apart, the first without a time
HistBar(i) ==
    [time |-> (i - 1) * 60000, open |-> 200 + i, high |-> 200 + i, low |-> 200 + i,
     close |-> 200 + i, volume |-> 0]

\* The arrays passed to loadHistoricalBars: the prefixes of a series one longer
\* than the cache keeps
BarLists == {[i \in 1..n |-> HistBar(i)] : n \in 0..(maxBars + 1)}

\* The record of a call that has returned (kind "undefined" or "value") or
\* thrown (kind "throw")
Returned(op, args, kind, value) ==
    [op |-> op, args |-> args, kind |-> kind, value |-> value, loads |-> ret.loads]

FeedTick ==
    \E s \in Symbols, p \in TickPrices, src \in TickSources :
        /\ ticks.n + ret.loads < MaxCalls
        /\ ret.kind # "throw"
        /\ ohlc' = updateTick(ohlc, s, p, src, null, clock)
        /\ ticks' = [n |-> ticks.n + 1, symbol |-> s, price |-> p, source |-> src,
                      timestamp |-> null]
        /\ ret' = Returned("updateTick", << >>, "undefined", null)
        /\ UNCHANGED <<clock, feed, inbox>>

LoadHistoricalBars ==
    \E s \in Symbols, tf \in Timeframes, bars \in BarLists :
        /\ ret.loads < MaxLoads
        /\ ticks.n + ret.loads < MaxCalls
        /\ ret.kind # "throw"
        /\ ohlc' = loadHistoricalBars(ohlc, s, tf, bars, clock)
        /\ ret' = [Returned("loadHistoricalBars", <<s, tf, bars>>, "undefined", null)
                      EXCEPT !.loads = @ + 1]
        /\ UNCHANGED <<clock, ticks, feed, inbox>>

NextBars ==
    \/ FeedTick
    \/ ClockAdvance
    \/ LoadHistoricalBars

SpecBars == InitCache /\ [][NextBars]_vars

-----------------------------------------------------------------------------
(* Candles from ticks alone: ticks of any price at any time, in or out of  *)
(* order.  The source of a tick plays no part in the candles and is kept   *)
(* to one value.                                                           *)
(***************************************************************************)

CandleTick ==
    \E s \in Symbols, p \in TickPrices, t \in TickTimes :
        /\ ticks.n < MaxTicks
        /\ ohlc' = updateTick(ohlc, s, p, "kucoin-ws", t, clock)
        /\ ticks' = [n |-> ticks.n + 1, symbol |-> s, price |-> p,
                      source |-> "kucoin-ws", timestamp |-> t]
        /\ UNCHANGED <<clock, feed, inbox, ret>>

NextCandle ==
    \/ CandleTick
    \/ ClockAdvance

SpecCandle == InitCache /\ [][NextCandle]_vars

-----------------------------------------------------------------------------
(* The cache called from outside: every operation with any symbol and any  *)
(* timeframe, tracked or not.  An exception of a call is its result; the   *)
(* cache stays in use after it.                                            *)
(***************************************************************************)

Counts == 0..(maxBars + 1)

RECURSIVE totalErrors(_, _)
totalErrors(c, symbols) ==
    IF symbols = {} THEN 0
    ELSE LET symbol == CHOOSE x \in symbols : TRUE
         IN c.errors[symbol] + totalErrors(c, symbols \ {symbol})

\* the calls made so far that change the cache
probes == ticks.n + ret.loads + totalErrors(ohlc, DOMAIN ohlc.errors)

CallUpdateTick ==
    \E s \in AllSymbols, p \in TickPrices :
        /\ probes < MaxProbes
        /\ ohlc' = updateTick(ohlc, s, p, "kucoin-ws", null, clock)
        /\ ticks' = [n |-> ticks.n + 1, symbol |-> s, price |-> p,
                      source |-> "kucoin-ws", timestamp |-> null]
        /\ ret' = IF updateTickThrows(ohlc, s)
                  THEN Returned("updateTick", <<s>>, "throw", null)
                  ELSE Returned("updateTick", <<s>>, "undefined", null)
        /\ UNCHANGED <<clock, feed, inbox>>

CallLoadHistoricalBars ==
    \E s \in AllSymbols, tf \in AllTimeframes, bars \in BarLists :
        /\ ret.loads < MaxLoads
        /\ probes < MaxProbes
        /\ ohlc' = loadHistoricalBars(ohlc, s, tf, bars, clock)
        /\ ret' = [Returned("loadHistoricalBars", <<s, tf>>, "undefined", null)
                      EXCEPT !.loads = @ + 1]
        /\ UNCHANGED <<clock, ticks, feed, inbox>>

CallGetBars ==
    \E s \in AllSymbols, tf \in AllTimeframes, count \in Counts :
        /\ ret' = Returned("getBars", <<s, tf, count>>, "value",
                            getBars(ohlc, s, tf, count))
        /\ UNCHANGED <<ohlc, clock, ticks, feed, inbox>>

CallGetLatestPrice ==
    \E s \in AllSymbols :
        /\ ret' = LET r == getLatestPrice(ohlc, s)
                  IN Returned("getLatestPrice", <<s>>, r.kind, r.value)
        /\ UNCHANGED <<ohlc, clock, ticks, feed, inbox>>

CallRecordError ==
    \E s \in AllSymbols :
        /\ totalErrors(ohlc, DOMAIN ohlc.errors) < MaxErrors
        /\ probes < MaxProbes
        /\ ohlc' = recordError(ohlc, s)
        /\ ret' = Returned("recordError", <<s>>, "undefined", null)
        /\ UNCHANGED <<clock, ticks, feed, inbox>>

NextRead ==
    \/ CallUpdateTick
    \/ CallLoadHistoricalBars
    \/ CallGetBars
    \/ CallGetLatestPrice
    \/ CallRecordError

SpecRead == InitCache /\ [][NextRead]_vars

-----------------------------------------------------------------------------
(* Stale symbols: ticks and historical loads set the latest tick of a      *)
(* symbol, the clock advances, and getStaleSymbols is asked with a maximum *)
(* age.  Prices and sources play no part in it and are kept to one value.  *)
(***************************************************************************)

MaxAges == {60000, 120000}

StaleTick ==
    \E s \in Symbols, t \in TickTimes :
        /\ ticks.n < MaxTicks
        /\ ohlc' = updateTick(ohlc, s, 100, "kucoin-ws", t, clock)
        /\ ticks' = [n |-> ticks.n + 1, symbol |-> s, price |-> 100,
                      source |-> "kucoin-ws", timestamp |-> t]
        /\ ret' = Returned("updateTick", << >>, "undefined", null)
        /\ UNCHANGED <<clock, feed, inbox>>

StaleLoad ==
    \E s \in Symbols, bars \in BarLists :
        /\ ret.loads < MaxLoads
        /\ ohlc' = loadHistoricalBars(ohlc, s, "1m", bars, clock)
        /\ ret' = [Returned("loadHistoricalBars", << >>, "undefined", null)
                      EXCEPT !.loads = @ + 1]
        /\ UNCHANGED <<clock, ticks, feed, inbox>>

GetStaleSymbols ==
    \E maxAgeMs \in MaxAges :
        /\ ret' = Returned("getStaleSymbols", <<maxAgeMs>>, "value",
                            getStaleSymbols(ohlc, maxAgeMs, clock))
        /\ UNCHANGED <<ohlc, clock, ticks, feed, inbox>>

NextStale ==
    \/ StaleTick
    \/ StaleLoad
    \/ ClockAdvance
    \/ GetStaleSymbols

SpecStale == InitCache /\ [][NextStale]_vars

-----------------------------------------------------------------------------
(* One candle from ticks to history: four ticks of one symbol at the prices *)
(* below, all in the one-minute bucket that starts at 180000, then a tick  *)
(* in a later bucket.  A timestamp may be omitted while the clock is in    *)
(* the bucket meant.                                                       *)
(***************************************************************************)

ScenarioPrices == <<100, 101, 99, 102>>
ScenarioBucket == Bucket(180000, "1m")
ScenarioTimes == {null, <<180000>>, <<200000>>, <<239999>>}
ScenarioNextTimes == {null, <<240000>>, <<300000>>, <<900000>>, <<3600000>>}
ScenarioNextPrices == {98, 100, 103}

ScenarioTick ==
    \E s \in Symbols, src \in TickSources, t \in ScenarioTimes :
        /\ ticks.n < Len(ScenarioPrices)
        /\ ticks.n > 0 => s = ticks.symbol
        /\ Bucket(tickTime(t, clock), "1m") = ScenarioBucket
        /\ ohlc' = updateTick(ohlc, s, ScenarioPrices[ticks.n + 1], src, t, clock)
        /\ ticks' = [n |-> ticks.n + 1, symbol |-> s, price |-> ScenarioPrices[ticks.n + 1],
                      source |-> src, timestamp |-> t]
        /\ UNCHANGED <<clock, feed, inbox, ret>>

ScenarioNextTick ==
    \E p \in ScenarioNextPrices, src \in TickSources, t \in ScenarioNextTimes :
        /\ ticks.n = Len(ScenarioPrices)
        /\ Bucket(tickTime(t, clock), "1m") > ScenarioBucket
        /\ ohlc' = updateTick(ohlc, ticks.symbol, p, src, t, clock)
        /\ ticks' = [n |-> ticks.n + 1, symbol |-> ticks.symbol, price |-> p,
                      source |-> src, timestamp |-> t]
        /\ UNCHANGED <<clock, feed, inbox, ret>>

NextScenario ==
    \/ ScenarioTick
    \/ ScenarioNextTick
    \/ ClockAdvance

SpecScenario == InitCache /\ [][NextScenario]_vars

-----------------------------------------------------------------------------
(* Handlers step by step.  updateTick and loadHistoricalBars are cut into   *)
(* the writes they make, one action per write, and feed is the handler on  *)
(* the call stack: pc is the method that is running ("idle" when the stack  *)
(* is empty), args its arguments, left the timeframes its loop has still to *)
(* do and before the cache it found.  Another handler or a reader runs only *)
(* when the stack is empty or the method that is running is at an await.    *)
(***************************************************************************)

\* this.timeframes, in the order forEach visits it
timeframeOrder == <<"1m", "5m", "15m", "1h">>

Idle == [pc |-> "idle", args |-> << >>, left |-> << >>, before |-> null]

\* A faulty cache, to test the sensitivity of C21: its methods are async and
\* await between their writes.
awaitsBetweenWrites(method) == TRUE

\* updateTick, updateOHLC, addCompletedCandle and loadHistoricalBars are plain
\* methods without an await: once called they run to their return
awaitsInside(method) == FALSE

\* a handler or a reader may run now
MayRun == feed.pc = "idle" \/ awaitsInside(feed.pc)

\* updateTick up to its loop: now is read and this.lastTick[symbol] written
TickStart ==
    \E s \in Symbols, p \in TickPrices :
        /\ feed.pc = "idle"
        /\ ticks.n + ret.loads < MaxProbes
        /\ ohlc' = [ohlc EXCEPT !.lastTick[s] =
                       <<[price |-> p, time |-> tickTime(null, clock), source |-> "kucoin-ws"]>>]
        /\ feed' = [pc |-> "updateTick", args |-> <<s, p, tickTime(null, clock)>>,
                    left |-> timeframeOrder, before |-> <<ohlc>>]
        /\ ticks' = [n |-> ticks.n + 1, symbol |-> s, price |-> p,
                      source |-> "kucoin-ws", timestamp |-> null]
        /\ UNCHANGED <<clock, inbox, ret>>

\* one turn of the loop of updateTick: updateOHLC of the next timeframe
TickTimeframe ==
    /\ feed.pc = "updateTick"
    /\ ohlc' = updateOHLC(ohlc, feed.args[1], Head(feed.left), feed.args[2], feed.args[3])
    /\ feed' = IF Tail(feed.left) = << >> THEN Idle ELSE [feed EXCEPT !.left = Tail(@)]
    /\ UNCHANGED <<clock, ticks, inbox, ret>>

\* loadHistoricalBars up to the write of the stored sequence; with no bars it
\* returns after it
LoadStart ==
    \E s \in Symbols, tf \in Timeframes, bars \in BarLists :
        /\ feed.pc = "idle"
        /\ ret.loads < MaxLoads
        /\ ticks.n + ret.loads < MaxProbes
        /\ ohlc' = [ohlc EXCEPT !.cache[s][tf] = slice(bars, 0 - maxBars)]
        /\ feed' = IF Len(bars) > 0
                   THEN [pc |-> "loadHistoricalBars", args |-> <<s, tf, bars>>,
                         left |-> << >>, before |-> <<ohlc>>]
                   ELSE Idle
        /\ ret' = [ret EXCEPT !.loads = @ + 1]
        /\ UNCHANGED <<clock, ticks, inbox>>

\* the rest of loadHistoricalBars: this.lastTick[symbol] from the last bar
LoadLastTick ==
    /\ feed.pc = "loadHistoricalBars"
    /\ ohlc' = LET lastBar == feed.args[3][Len(feed.args[3])]
               IN [ohlc EXCEPT !.lastTick[feed.args[1]] =
                      <<[price |-> lastBar.close,
                         time |-> IF lastBar.time = 0 THEN clock ELSE lastBar.time,
                         source |-> "historical"]>>]
    /\ feed' = Idle
    /\ UNCHANGED <<clock, ticks, inbox, ret>>

\* a reader: a route handler or the strategy engine asks for the bars of a key
ReadBars ==
    \E s \in Symbols, tf \in Timeframes :
        /\ MayRun
        /\ ret' = Returned("getBars", <<s, tf>>, "value", getBars(ohlc, s, tf, maxBars))
        /\ UNCHANGED <<ohlc, clock, ticks, feed, inbox>>

InitAtomic ==
    /\ ohlc = OHLCCacheNew
    /\ clock = 180000
    /\ ticks = NoTicks
    /\ feed = Idle
    /\ inbox = null
    /\ ret = NoCall

NextAtomic ==
    \/ TickStart
    \/ TickTimeframe
    \/ LoadStart
    \/ LoadLastTick
    \/ ReadBars
    \/ ClockAdvance

SpecAtomic == InitAtomic /\ [][NextAtomic]_vars

-----------------------------------------------------------------------------
(* The connector and the fallback timers together: the 5 s timeout and the *)
(* 2 min interval of startFallbackPolling fire beside the socket events.   *)
(* What a firing does with the batch request is the matter of the poller   *)
(* specification below; here a firing is the call of fetchBatchPrices.     *)
(***************************************************************************)

\* the interval of startFallbackPolling is set and the process is there to run
\* its callback
fallbackRuns(f) == f.fallbackActive /\ ~f.crashed

\* the setTimeout callback of startFallbackPolling
FallbackInitialFire ==
    /\ feed.fallbackInitial
    /\ Step([feed EXCEPT !.fallbackInitial = FALSE])

\* the setInterval callback of startFallbackPolling
FallbackFire ==
    /\ fallbackRuns(feed)
    /\ Step(feed)

NextFeedPoll ==
    \/ NextFeed
    \/ FallbackInitialFire
    \/ FallbackFire

SpecFeedPoll == InitFeed /\ [][NextFeedPoll]_vars

-----------------------------------------------------------------------------
(* The fallback poller in time (SpecPoll).  `feed` holds the poller's part *)
(* of the DataFeedManager: lastFallbackFetch, the two timers of             *)
(* startFallbackPolling with the time each is due, and the batch requests   *)
(* that wait for their response, each with the `now` its call read.  A      *)
(* timer fires when the clock has reached its due time, or later: the       *)
(* event loop promises no more.  The timeout was set first and is due       *)
(* first, so it fires before the interval's first firing.  `issued` keeps   *)
(* the time of the latest request and `skipped` tells that a request of the *)
(* current cycle was rate limited.                                          *)
(***************************************************************************)

MaxCycles == 2          \* firings of the interval

minFallbackInterval == 60000
fallbackIntervalMs == 120000
fallbackInitialDelay == 5000

feedSymbols == <<"btc", "matic">>

\* the body of the batch response: the usd price per coin, 0 where the coin
\* or its price is missing; every coin is priced, or the first alone
BatchData ==
    {[s \in Symbols |-> 100],
     [s \in Symbols |-> IF s = Head(feedSymbols) THEN 100 ELSE 0]}

PollerNew(dateNow) ==
    [lastFallbackFetch |-> 0,
     timeoutDue |-> <<dateNow + fallbackInitialDelay>>,
     intervalDue |-> dateNow + fallbackIntervalMs,
     cycles |-> 0,
     pending |-> << >>,
     issued |-> null,
     skipped |-> FALSE]

RemoveAt(seq, i) == SubSeq(seq, 1, i - 1) \o SubSeq(seq, i + 1, Len(seq))

\* fetchBatchPrices up to its first await: the guard, then the request
fetchBatchPricesGuards(f, now) == now - f.lastFallbackFetch < minFallbackInterval

fetchBatchPricesStart(f, now) ==
    IF fetchBatchPricesGuards(f, now) THEN f
    ELSE [f EXCEPT !.pending = Append(@, now), !.issued = <<now>>]

\* the 429 branch stamps lastFallbackFetch as the success branch does
respondRateLimitedStamps(f, i) ==
    [f EXCEPT !.pending = RemoveAt(@, i), !.lastFallbackFetch = f.pending[i],
              !.skipped = TRUE]

\* fetchBatchPrices after the await, response.status === 429: warn and return
respondRateLimited(f, i) ==
    [f EXCEPT !.pending = RemoveAt(@, i), !.skipped = TRUE]

\* fetch() rejects, the status is another error, or response.json() rejects:
\* the catch block logs
respondFailed(f, i) == [f EXCEPT !.pending = RemoveAt(@, i)]

\* fetchBatchPrices after both awaits: the stamp, then the loop over the symbols
respondOk(f, i) ==
    [f EXCEPT !.pending = RemoveAt(@, i), !.lastFallbackFetch = f.pending[i]]

RECURSIVE batchUpdate(_, _, _, _)
batchUpdate(c, syms, data, dateNow) ==
    IF syms = << >> THEN c
    ELSE batchUpdate(IF data[Head(syms)] # 0
                        THEN updateTick(c, Head(syms), data[Head(syms)],
                                        "coingecko", null, dateNow)
                        ELSE c,
                     Tail(syms), data, dateNow)

Fired(f) == [f EXCEPT !.skipped = FALSE]

TimeoutFire ==
    /\ feed.timeoutDue # null
    /\ clock >= feed.timeoutDue[1]
    /\ Len(feed.pending) < MaxPending
    /\ feed' = fetchBatchPricesStart([Fired(feed) EXCEPT !.timeoutDue = null], clock)
    /\ ret' = Returned("fetchBatchPrices", << >>,
                       IF fetchBatchPricesGuards(feed, clock) THEN "guarded" ELSE "issued",
                       null)
    /\ UNCHANGED <<ohlc, clock, ticks, inbox>>

IntervalFire ==
    /\ feed.timeoutDue = null
    /\ clock >= feed.intervalDue
    /\ feed.cycles < MaxCycles
    /\ Len(feed.pending) < MaxPending
    /\ feed' = fetchBatchPricesStart(
                   [Fired(feed) EXCEPT !.intervalDue = clock + fallbackIntervalMs,
                                       !.cycles = @ + 1], clock)
    /\ ret' = Returned("fetchBatchPrices", << >>,
                       IF fetchBatchPricesGuards(feed, clock) THEN "guarded" ELSE "issued",
                       null)
    /\ UNCHANGED <<ohlc, clock, ticks, inbox>>

RespondOk ==
    \E i \in 1..Len(feed.pending), data \in BatchData :
        /\ feed' = respondOk(feed, i)
        /\ ohlc' = batchUpdate(ohlc, feedSymbols, data, clock)
        /\ ret' = Returned("fetchBatchPrices", << >>, "updated", null)
        /\ UNCHANGED <<clock, ticks, inbox>>

RespondRateLimited ==
    \E i \in 1..Len(feed.pending) :
        /\ feed' = respondRateLimited(feed, i)
        /\ ret' = Returned("fetchBatchPrices", << >>, "rateLimited", null)
        /\ UNCHANGED <<ohlc, clock, ticks, inbox>>

RespondFailed ==
    \E i \in 1..Len(feed.pending) :
        /\ feed' = respondFailed(feed, i)
        /\ ret' = Returned("fetchBatchPrices", << >>, "failed", null)
        /\ UNCHANGED <<ohlc, clock, ticks, inbox>>

\* time passes to the moment a timer is due, or one minimum gap past the
\* moment the interval is due
PollClockAdvance ==
    \E t \in {feed.intervalDue, feed.intervalDue + minFallbackInterval}
             \cup {feed.timeoutDue[i] : i \in DOMAIN feed.timeoutDue} :
        /\ t > clock
        /\ clock' = t
        /\ UNCHANGED <<ohlc, ticks, feed, inbox, ret>>

InitPoll ==
    /\ ohlc = OHLCCacheNew
    /\ clock = 180000
    /\ ticks = NoTicks
    /\ feed = PollerNew(180000)
    /\ inbox = null
    /\ ret = NoCall

NextPoll ==
    \/ TimeoutFire
    \/ IntervalFire
    \/ RespondOk
    \/ RespondRateLimited
    \/ RespondFailed
    \/ PollClockAdvance

SpecPoll == InitPoll /\ [][NextPoll]_vars

-----------------------------------------------------------------------------
(* The startup of the feed (SpecStartup): initialize() with what it finds  *)
(* on disk.  `feed` holds the position in initialize, the snapshot file,    *)
(* the (symbol, timeframe) requests of the backfill still to make and       *)
(* totalFetched; `ohlc` is the cache given to the DataFeedManager, new when *)
(* initialize starts.  Each action is one stretch of initialize between two *)
(* awaits.                                                                  *)
(***************************************************************************)

warmBars == 2           \* bars of 1h that make a symbol warm (200 in the source)

histBars(n) == [i \in 1..n |-> HistBar(i)]

isNull(x) == DOMAIN x = {}

\* what cached[symbol] can hold in a snapshot that parses: nothing, enough
\* bars in each timeframe, too few in each, or an array that ends in null
SnapshotProfiles == {"absent", "warm", "cold", "nullTail"}

snapshotEntry(profile, tf) ==
    CASE profile = "absent" -> null
      [] profile = "warm" -> <<histBars(warmBars)>>
      [] profile = "cold" -> <<histBars(warmBars - 1)>>
      [] profile = "nullTail" -> <<Append(histBars(warmBars - 1), null)>>

Snapshots ==
    {[kind |-> k, data |-> [s \in Symbols |-> [tf \in Timeframes |-> null]]] :
        k \in {"missing", "unreadable", "unparsable"}}
    \cup {[kind |-> "parsed",
           data |-> [s \in Symbols |-> [tf \in Timeframes |-> snapshotEntry(p[s], tf)]]] :
            p \in [Symbols -> SnapshotProfiles]}

\* the pairs in the order the loops of loadHistoricalCache and
\* fetchHistoricalData visit them
symbolTimeframes ==
    [i \in 1..(Len(feedSymbols) * Len(timeframeOrder)) |->
        <<feedSymbols[((i - 1) \div Len(timeframeOrder)) + 1],
          timeframeOrder[((i - 1) % Len(timeframeOrder)) + 1]>>]

\* loadHistoricalBars on an array of a snapshot: it assigns the cache, then
\* reads lastBar.close, a TypeError when the last element is null
loadEntry(c, symbol, tf, bars, dateNow) ==
    IF Len(bars) > 0 /\ isNull(bars[Len(bars)])
    THEN [cache |-> [c EXCEPT !.cache[symbol][tf] = slice(bars, 0 - maxBars)],
          threw |-> TRUE]
    ELSE [cache |-> loadHistoricalBars(c, symbol, tf, bars, dateNow), threw |-> FALSE]

\* the loop of loadHistoricalCache, left by the first exception
RECURSIVE loadEntries(_, _, _, _)
loadEntries(c, pairs, data, dateNow) ==
    IF pairs = << >> THEN [cache |-> c, threw |-> FALSE]
    ELSE LET symbol == Head(pairs)[1]
             tf == Head(pairs)[2]
             entry == data[symbol][tf]
             r == loadEntry(c, symbol, tf, entry[1], dateNow)
         IN IF entry = null THEN loadEntries(c, Tail(pairs), data, dateNow)
            ELSE IF r.threw THEN r
            ELSE loadEntries(r.cache, Tail(pairs), data, dateNow)

\* loadHistoricalCache: readFile or JSON.parse fail into the catch block, and
\* so does an exception of the loop
loadHistoricalCache(c, snapshot, dateNow) ==
    IF snapshot.kind # "parsed" THEN [cache |-> c, threw |-> TRUE]
    ELSE loadEntries(c, symbolTimeframes, snapshot.data, dateNow)

\* checkIfNeedsHistoricalData: false as soon as one of the first three symbols
\* has the bars
checkIfNeedsHistoricalData(c) ==
    ~ \E i \in 1..Min(3, Len(feedSymbols)) :
        Len(getBars(c, feedSymbols[i], "1h", warmBars)) >= warmBars

\* saveHistoricalCache: what JSON.stringify writes of the cache
cacheData(c) ==
    [kind |-> "parsed",
     data |-> [s \in Symbols |-> [tf \in Timeframes |->
                 IF Len(getBars(c, s, tf, maxBars)) > 0
                 THEN <<getBars(c, s, tf, maxBars)>> ELSE null]]]

StartupNew(snapshot) ==
    [pc |-> "loadHistoricalCache", snapshot |-> snapshot, loadThrew |-> FALSE,
     left |-> << >>, totalFetched |-> 0, fetched |-> FALSE,
     connecting |-> FALSE, polling |-> FALSE]

\* await this.loadHistoricalCache()
LoadSnapshot ==
    /\ feed.pc = "loadHistoricalCache"
    /\ LET r == loadHistoricalCache(ohlc, feed.snapshot, clock)
       IN /\ ohlc' = r.cache
          /\ feed' = [feed EXCEPT !.pc = "checkIfNeedsHistoricalData",
                                  !.loadThrew = r.threw]
    /\ UNCHANGED <<clock, ticks, inbox, ret>>

\* const needsHistorical = await this.checkIfNeedsHistoricalData()
CheckWarm ==
    /\ feed.pc = "checkIfNeedsHistoricalData"
    /\ feed' = IF checkIfNeedsHistoricalData(ohlc)
               THEN [feed EXCEPT !.pc = "fetchHistoricalData",
                                 !.left = symbolTimeframes, !.fetched = TRUE]
               ELSE [feed EXCEPT !.pc = "connectKuCoinWebSocket"]
    /\ UNCHANGED <<ohlc, clock, ticks, inbox, ret>>

afterFetch(f) ==
    IF Len(f.left) > 0 THEN f
    ELSE [f EXCEPT !.pc = IF f.totalFetched > 0 THEN "saveHistoricalCache"
                          ELSE "connectKuCoinWebSocket"]

\* one request of fetchHistoricalData answered with candles
FetchLoaded ==
    /\ feed.pc = "fetchHistoricalData"
    /\ Len(feed.left) > 0
    /\ ohlc' = loadHistoricalBars(ohlc, Head(feed.left)[1], Head(feed.left)[2],
                                  histBars(warmBars), clock)
    /\ feed' = afterFetch([feed EXCEPT !.left = Tail(@), !.totalFetched = 1])
    /\ UNCHANGED <<clock, ticks, inbox, ret>>

\* one request of fetchHistoricalData that fails: an error status, a body
\* without candles or an exception
FetchFailed ==
    /\ feed.pc = "fetchHistoricalData"
    /\ Len(feed.left) > 0
    /\ feed' = afterFetch([feed EXCEPT !.left = Tail(@)])
    /\ UNCHANGED <<ohlc, clock, ticks, inbox, ret>>

\* await this.saveHistoricalCache(), the file written or the error logged
SaveSnapshot ==
    /\ feed.pc = "saveHistoricalCache"
    /\ \E written \in BOOLEAN :
        feed' = [feed EXCEPT !.pc = "connectKuCoinWebSocket",
                             !.snapshot = IF written THEN cacheData(ohlc) ELSE @]
    /\ UNCHANGED <<ohlc, clock, ticks, inbox, ret>>

\* await this.connectKuCoinWebSocket(); this.startFallbackPolling()
ConnectAndPoll ==
    /\ feed.pc = "connectKuCoinWebSocket"
    /\ feed' = [feed EXCEPT !.pc = "done", !.connecting = TRUE, !.polling = TRUE]
    /\ UNCHANGED <<ohlc, clock, ticks, inbox, ret>>

InitStartup ==
    /\ ohlc = OHLCCacheNew
    /\ clock = 180000
    /\ ticks = NoTicks
    /\ feed \in {StartupNew(s) : s \in Snapshots}
    /\ inbox = null
    /\ ret = NoCall

NextStartup ==
    \/ LoadSnapshot
    \/ CheckWarm
    \/ FetchLoaded
    \/ FetchFailed
    \/ SaveSnapshot
    \/ ConnectAndPoll

SpecStartup == InitStartup /\ [][NextStartup]_vars

-----------------------------------------------------------------------------
(* StrategyEngine.  The votes of the source are sums of weight * strength  *)
(* with weights in hundredths and strengths in tenths; the model counts    *)
(* them in thousandths, so a weight is its number of hundredths, a         *)
(* strength its number of tenths, and the 0.1 of a HOLD is 1.  Prices and  *)
(* ATR are integers and the risk levels are counted in thousandths of the  *)
(* price unit, which keeps every product of calculateSLTP exact.           *)
(***************************************************************************)

MaxVote == 5            \* largest vote total given to determineSignal alone

Plans == {"short", "mid", "long"}

plans ==
    [short |-> [1m |-> 40, 5m |-> 40, 15m |-> 15, 1h |-> 5],
     mid |-> [1m |-> 10, 5m |-> 35, 15m |-> 35, 1h |-> 20],
     long |-> [1m |-> 5, 5m |-> 15, 15m |-> 30, 1h |-> 50]]

\* ATR multipliers in tenths
atrMultipliers ==
    [short |-> [sl |-> 10, tp |-> 15],
     mid |-> [sl |-> 15, tp |-> 20],
     long |-> [sl |-> 20, tp |-> 30]]

\* percentages of the fallback in hundredths
percentageFallback ==
    [short |-> [sl |-> 2, tp |-> 5],
     mid |-> [sl |-> 3, tp |-> 8],
     long |-> [sl |-> 5, tp |-> 15]]

\* a lookup that falls back on the short plan
planOrShort(table, plan) == IF plan \in Plans THEN table[plan] ELSE table.short

\* table[plan] || table.mid
planOr(table, plan) == IF plan \in Plans THEN table[plan] ELSE table.mid

Abs(x) == IF x < 0 THEN 0 - x ELSE x

\* Math.min(Math.round(votes / total * 100), 100)
confidenceOf(votes, total) == Min((200 * votes + total) \div (2 * total), 100)

\* the 40% consensus is enough
determineSignalAtLeast(votes) ==
    LET total == votes.BUY + votes.SELL + votes.HOLD
    IN IF total = 0 THEN [signal |-> "HOLD", confidence |-> 0]
       ELSE IF votes.BUY * 100 >= 40 * total /\ votes.BUY > votes.SELL
            THEN [signal |-> "BUY", confidence |-> confidenceOf(votes.BUY, total)]
       ELSE IF votes.SELL * 100 >= 40 * total /\ votes.SELL > votes.BUY
            THEN [signal |-> "SELL", confidence |-> confidenceOf(votes.SELL, total)]
       ELSE [signal |-> "HOLD", confidence |-> 0]

\* buyPct > 40 is votes.BUY / total * 100 > 40, and buyPct > sellPct is
\* votes.BUY > votes.SELL, total being positive
determineSignal(votes) ==
    LET total == votes.BUY + votes.SELL + votes.HOLD
    IN IF total = 0 THEN [signal |-> "HOLD", confidence |-> 0]
       ELSE IF votes.BUY * 100 > 40 * total /\ votes.BUY > votes.SELL
            THEN [signal |-> "BUY", confidence |-> confidenceOf(votes.BUY, total)]
       ELSE IF votes.SELL * 100 > 40 * total /\ votes.SELL > votes.BUY
            THEN [signal |-> "SELL", confidence |-> confidenceOf(votes.SELL, total)]
       ELSE [signal |-> "HOLD", confidence |-> 0]

\* a level is kept however close to the entry it is
minDistanceLevelKeeps(level, price, signal, buyLevel, sellLevel) == level

\* the replacement levels are taken from the other side
minDistanceLevelOtherSide(level, price, signal, buyLevel, sellLevel) ==
    IF Abs(level - price * 1000) < price * 5
    THEN IF signal = "BUY" THEN price * sellLevel ELSE price * buyLevel
    ELSE level

\* a level closer to the entry than 0.5% is replaced: price * 0.98 or 1.02 for
\* the stop, price * 1.05 or 0.95 for the target
minDistanceLevel(level, price, signal, buyLevel, sellLevel) ==
    IF Abs(level - price * 1000) < price * 5
    THEN IF signal = "BUY" THEN price * buyLevel ELSE price * sellLevel
    ELSE level

\* atr && atr >= minATR, with minATR = price * 0.001; a missing atr is 0
useATR(price, atr) == atr # 0 /\ atr * 1000 >= price

\* the levels in thousandths; null for a signal that is neither BUY nor SELL
calculateSLTP(price, atr, signal, plan) ==
    LET multipliers == planOr(atrMultipliers, plan)
        pct == planOr(percentageFallback, plan)
        stopLoss ==
            IF signal = "BUY"
            THEN IF useATR(price, atr) THEN price * 1000 - atr * multipliers.sl * 100
                 ELSE price * (100 - pct.sl) * 10
            ELSE IF useATR(price, atr) THEN price * 1000 + atr * multipliers.sl * 100
                 ELSE price * (100 + pct.sl) * 10
        takeProfit ==
            IF signal = "BUY"
            THEN IF useATR(price, atr) THEN price * 1000 + atr * multipliers.tp * 100
                 ELSE price * (100 + pct.tp) * 10
            ELSE IF useATR(price, atr) THEN price * 1000 - atr * multipliers.tp * 100
                 ELSE price * (100 - pct.tp) * 10
    IN IF signal \notin {"BUY", "SELL"} THEN null
       ELSE <<[stopLoss |-> minDistanceLevel(stopLoss, price, signal, 980, 1020),
               takeProfit |-> minDistanceLevel(takeProfit, price, signal, 1050, 950)]>>

-----------------------------------------------------------------------------
(* determineSignal alone (SpecSignal): `feed` holds the votes it is given. *)

VoteTotals == [BUY : 0..MaxVote, SELL : 0..MaxVote, HOLD : 0..MaxVote]

CallDetermineSignal ==
    /\ ret.op = "none"
    /\ ret' = Returned("determineSignal", <<feed.votes>>, "value",
                       determineSignal(feed.votes))
    /\ UNCHANGED <<ohlc, clock, ticks, feed, inbox>>

InitSignal ==
    /\ ohlc = OHLCCacheNew
    /\ clock = 180000
    /\ ticks = NoTicks
    /\ feed \in {[votes |-> v] : v \in VoteTotals}
    /\ inbox = null
    /\ ret = NoCall

NextSignal == CallDetermineSignal

SpecSignal == InitSignal /\ [][NextSignal]_vars

-----------------------------------------------------------------------------
(* calculateSLTP alone (SpecSltp): `feed` holds its arguments.  An ATR of  *)
(* 0 stands for a zero or missing ATR; 1 and 2 are 0.001 of the prices.    *)

EntryPrices == {1000, 2000}
AtrValues == {0, 1, 2, 5, 10, 30}
Signals == {"BUY", "SELL", "HOLD"}
\* the plan names the callers pass: the three plans and 'medium'
PlanNames == Plans \cup {"medium"}

CallCalculateSLTP ==
    /\ ret.op = "none"
    /\ ret' = Returned("calculateSLTP", <<feed.price, feed.atr, feed.signal, feed.plan>>,
                       "value",
                       calculateSLTP(feed.price, feed.atr, feed.signal, feed.plan))
    /\ UNCHANGED <<ohlc, clock, ticks, feed, inbox>>

InitSltp ==
    /\ ohlc = OHLCCacheNew
    /\ clock = 180000
    /\ ticks = NoTicks
    /\ feed \in [price : EntryPrices, atr : AtrValues, signal : Signals, plan : PlanNames]
    /\ inbox = null
    /\ ret = NoCall

NextSltp == CallCalculateSLTP

SpecSltp == InitSltp /\ [][NextSltp]_vars

-----------------------------------------------------------------------------
(* analyzeSymbol over the cache (SpecEngine).  History is loaded for one   *)
(* symbol, a timeframe at a time, one bar short of the bars an analysis    *)
(* needs or just enough; then analyzeSymbol is called once, for a tracked  *)
(* or an untracked symbol and a known or an unknown plan.  The indicator   *)
(* library is outside the repository: what the four evaluate functions     *)
(* return for an evaluated timeframe, and the ATR, are inputs.             *)
(***************************************************************************)

minAnalysisBars == 2    \* bars a timeframe needs to be analysed (50 in the source)

\* the count analyzeTimeframe asks getBars for (200 in the source)
analysisBars == maxBars

Hold == [signal |-> "HOLD", strength |-> 0]
Buy(strength) == [signal |-> "BUY", strength |-> strength]
Sell(strength) == [signal |-> "SELL", strength |-> strength]

\* signals: { trend, rsiSignal, macdSignal, bbSignal }
SignalProfiles ==
    {<<Hold, Hold, Hold, Hold>>,
     <<Buy(10), Buy(5), Buy(10), Hold>>,
     <<Sell(10), Sell(5), Sell(10), Hold>>,
     <<Buy(5), Sell(10), Hold, Buy(8)>>}

\* a timeframe is analysed with a single bar
analyzeTimeframeAnyBars(c, symbol, timeframe) ==
    Len(getBars(c, symbol, timeframe, analysisBars)) >= 1

\* analyzeTimeframe returns an analysis, not null
analyzeTimeframe(c, symbol, timeframe) ==
    ~(Len(getBars(c, symbol, timeframe, analysisBars)) < minAnalysisBars)

\* the latest close of the timeframe's bars
priceOf(c, symbol, timeframe) ==
    LET bars == getBars(c, symbol, timeframe, analysisBars)
    IN IF Len(bars) = 0 THEN 0 ELSE bars[Len(bars)].close

RECURSIVE tfVotes(_, _)
tfVotes(signals, kind) ==
    IF signals = << >> THEN 0
    ELSE tfVotes(Tail(signals), kind)
         + (IF kind = "HOLD"
            THEN IF Head(signals).signal \notin {"BUY", "SELL"} THEN 1 ELSE 0
            ELSE IF Head(signals).signal = kind THEN Head(signals).strength ELSE 0)

RECURSIVE sumVotes(_, _, _, _)
sumVotes(order, timeframes, weights, kind) ==
    IF order = << >> THEN 0
    ELSE sumVotes(Tail(order), timeframes, weights, kind)
         + (IF Head(order) \in DOMAIN timeframes
            THEN tfVotes(timeframes[Head(order)], kind) * weights[Head(order)]
            ELSE 0)

\* timeframes maps each analysed timeframe to its signals
calculateVotes(timeframes, plan) ==
    LET weights == planOr(plans, plan)
    IN [BUY |-> sumVotes(timeframeOrder, timeframes, weights, "BUY"),
        SELL |-> sumVotes(timeframeOrder, timeframes, weights, "SELL"),
        HOLD |-> sumVotes(timeframeOrder, timeframes, weights, "HOLD")]

\* the levels are computed for every BUY or SELL
wantsSLTPOnSignal(signal, timeframes) == signal # "HOLD"

\* signal !== 'HOLD' && results.timeframes['1h']
wantsSLTP(signal, timeframes) == signal # "HOLD" /\ "1h" \in DOMAIN timeframes

analyzeSymbol(c, symbol, plan, timeframes, atr) ==
    LET votes == calculateVotes(timeframes, plan)
        decided == determineSignal(votes)
    IN [symbol |-> symbol, plan |-> plan, timeframes |-> DOMAIN timeframes,
        votes |-> votes, confidence |-> decided.confidence, signal |-> decided.signal,
        sltp |-> IF wantsSLTP(decided.signal, timeframes)
                 THEN calculateSLTP(priceOf(c, symbol, "1h"), atr, decided.signal, plan)
                 ELSE null]

\* the analysis counts an error for its symbol
analysisCountsError(c, symbol) ==
    IF symbol \in Symbols THEN recordError(c, symbol) ELSE c

\* the cache after analyzeSymbol: the call and analyzeTimeframe reach the
\* cache through getBars alone, which hands out a copy of the stored sequence,
\* and they assign to none of its bars
analysisLeaves(c, symbol) == c

\* loadHistoricalBars for a timeframe of the one symbol that gets history
EngineLoad ==
    \E s \in Symbols, tf \in Timeframes, n \in {minAnalysisBars - 1, minAnalysisBars} :
        /\ ret.op = "none"
        /\ ohlc.cache[s][tf] = << >>
        /\ \A o \in Symbols \ {s}, t \in Timeframes : ohlc.cache[o][t] = << >>
        /\ ohlc' = loadHistoricalBars(ohlc, s, tf, histBars(n), clock)
        /\ UNCHANGED <<clock, ticks, feed, inbox, ret>>

CallAnalyzeSymbol ==
    \E symbol \in Symbols \cup {"foo"}, plan \in PlanNames, atr \in {0, 1} :
        \E timeframes \in [{tf \in Timeframes : analyzeTimeframe(ohlc, symbol, tf)}
                               -> SignalProfiles] :
            /\ ret.op = "none"
            /\ ret' = Returned("analyzeSymbol", <<symbol, plan, timeframes, atr>>, "value",
                               analyzeSymbol(ohlc, symbol, plan, timeframes, atr))
            /\ ohlc' = analysisLeaves(ohlc, symbol)
            /\ UNCHANGED <<clock, ticks, feed, inbox>>

InitEngine ==
    /\ ohlc = OHLCCacheNew
    /\ clock = 180000
    /\ ticks = NoTicks
    /\ feed = Idle
    /\ inbox = null
    /\ ret = NoCall

NextEngine ==
    \/ EngineLoad
    \/ CallAnalyzeSymbol

SpecEngine == InitEngine /\ [][NextEngine]_vars

-----------------------------------------------------------------------------
(* The alert loop of index.js (SpecAlert).  `feed` holds lastSignals for    *)
(* one strategy, and the runs of checkSignals under way: the symbols a run  *)
(* has still to check and, while it awaits sendAlert, the signal it is      *)
(* sending.  A run is started by the timers and by POST                     *)
(* /api/alerts/check-now, whether or not another run is under way.          *)
(* `lastChecked` keeps what the latest getSignal returned per symbol and    *)
(* `lastAlert` the latest alert; `alertSent` flips at each alert.           *)
(***************************************************************************)

MaxRuns == 2            \* runs of checkSignals under way at once

\* lastSignals[strategy][sym] = null
noSignal == "null"

AlertLoopNew ==
    [lastSignals |-> [s \in Symbols |-> noSignal],
     runs |-> << >>,
     lastChecked |-> [s \in Symbols |-> noSignal],
     lastAlert |-> [symbol |-> Head(feedSymbols), from |-> noSignal, to |-> noSignal],
     alertSent |-> FALSE]

\* an alert for each signal that is not HOLD, changed or not
shouldAlertEveryTime(currentSignal, previousSignal) ==
    currentSignal = "BUY" \/ currentSignal = "SELL"

shouldAlert(currentSignal, previousSignal) ==
    (currentSignal = "BUY" \/ currentSignal = "SELL") /\ currentSignal # previousSignal

\* the rest of the loop body after the alert, if any: the signal is stored
\* and the loop moves on; the run ends after the last symbol
storeSignal(f, i, currentSignal) ==
    LET symbol == Head(f.runs[i].left)
        f1 == [f EXCEPT !.lastSignals[symbol] = currentSignal]
    IN IF Len(f.runs[i].left) = 1
       THEN [f1 EXCEPT !.runs = RemoveAt(@, i)]
       ELSE [f1 EXCEPT !.runs[i] = [left |-> Tail(f.runs[i].left), pc |-> "getSignal",
                                    signal |-> noSignal]]

\* the loop body from the return of getSignal to its next await
checkSignal(f, i, currentSignal) ==
    LET symbol == Head(f.runs[i].left)
        previousSignal == f.lastSignals[symbol]
        f1 == [f EXCEPT !.lastChecked[symbol] = currentSignal]
    IN IF shouldAlert(currentSignal, previousSignal)
       THEN [f1 EXCEPT !.runs[i].pc = "sendAlert",
                       !.runs[i].signal = currentSignal,
                       !.lastAlert = [symbol |-> symbol, from |-> previousSignal,
                                      to |-> currentSignal],
                       !.alertSent = ~@]
       ELSE storeSignal(f1, i, currentSignal)

\* setTimeout / setInterval callback, or the check-now request: checkSignals()
CheckSignalsStart ==
    /\ Len(feed.runs) < MaxRuns
    /\ feed' = [feed EXCEPT !.runs = Append(@, [left |-> feedSymbols, pc |-> "getSignal",
                                                signal |-> noSignal])]
    /\ UNCHANGED <<ohlc, clock, ticks, inbox, ret>>

\* await getSignal(symbol, strategy) returns
SignalReturned ==
    \E i \in 1..Len(feed.runs), currentSignal \in Signals :
        /\ feed.runs[i].pc = "getSignal"
        /\ feed' = checkSignal(feed, i, currentSignal)
        /\ UNCHANGED <<ohlc, clock, ticks, inbox, ret>>

\* await sendAlert(...) returns
AlertReturned ==
    \E i \in 1..Len(feed.runs) :
        /\ feed.runs[i].pc = "sendAlert"
        /\ feed' = storeSignal(feed, i, feed.runs[i].signal)
        /\ UNCHANGED <<ohlc, clock, ticks, inbox, ret>>

InitAlert ==
    /\ ohlc = OHLCCacheNew
    /\ clock = 180000
    /\ ticks = NoTicks
    /\ feed = AlertLoopNew
    /\ inbox = null
    /\ ret = NoCall

NextAlert ==
    \/ CheckSignalsStart
    \/ SignalReturned
    \/ AlertReturned

SpecAlert == InitAlert /\ [][NextAlert]_vars

-----------------------------------------------------------------------------
(* PaperTrading (modules/http-fallback.js): one bot's open positions and    *)
(* the runs of checkAndExecuteTrades under way, each paused at an await.    *)
(* feed = [positions, runs]; a position is modelled by its symbol.          *)

\* config.maxPositions || 3, and 3 for each of the three bots
maxPositions == 3

\* the head of SUPPORTED_SYMBOLS, one symbol more than maxPositions
tradeSymbols == <<"btc", "eth", "sol", "xrp">>

minConfidence == 50
Confidences == {40, 60}

PaperTradingNew == [positions |-> << >>, runs |-> << >>]

\* this.portfolio.positions.find(p => p.symbol === symbol)
existingPosition(positions, symbol) ==
    {k \in 1..Len(positions) : positions[k] = symbol}

\* the loop moves to the next symbol; after the last one the run saves the
\* portfolio when it acted, and ends
nextSymbol(f, i) ==
    IF Len(f.runs[i].left) > 1
    THEN [f EXCEPT !.runs[i].left = Tail(@), !.runs[i].pc = "analyzeSymbol"]
    ELSE IF f.runs[i].acted
         THEN [f EXCEPT !.runs[i].left = << >>, !.runs[i].pc = "save"]
         ELSE [f EXCEPT !.runs = RemoveAt(@, i)]

\* an entry that does not look at the number of open positions
checkEntryConditionsNoLimit(f, i, symbol, signal, confidence) ==
    IF signal = "HOLD" \/ confidence < minConfidence
    THEN nextSymbol(f, i)
    ELSE IF signal # "BUY"
    THEN nextSymbol(f, i)
    ELSE [f EXCEPT !.positions = Append(@, symbol),
                   !.runs[i].pc = "sendTelegramNotification",
                   !.runs[i].acted = TRUE]

\* checkEntryConditions up to its first await, which follows the push
checkEntryConditions(f, i, symbol, signal, confidence) ==
    IF signal = "HOLD" \/ confidence < minConfidence
    THEN nextSymbol(f, i)
    ELSE IF Len(f.positions) >= maxPositions
    THEN nextSymbol(f, i)
    ELSE IF signal # "BUY"
    THEN nextSymbol(f, i)
    ELSE [f EXCEPT !.positions = Append(@, symbol),
                   !.runs[i].pc = "sendTelegramNotification",
                   !.runs[i].acted = TRUE]

\* checkExitConditions up to its first await, which follows the splice;
\* levelHit: the price is past the stop-loss or the take-profit
checkExitConditions(f, i, k, levelHit, signal, confidence) ==
    IF levelHit \/ (signal = "SELL" /\ confidence >= minConfidence)
    THEN [f EXCEPT !.positions = RemoveAt(@, k),
                   !.runs[i].pc = "sendTelegramNotification",
                   !.runs[i].acted = TRUE]
    ELSE nextSymbol(f, i)

\* the loop body from the return of analyzeSymbol to its next await
checkSymbol(f, i, priced, levelHit, signal, confidence) ==
    LET symbol == Head(f.runs[i].left)
        found == existingPosition(f.positions, symbol)
    IN IF ~priced
       THEN nextSymbol(f, i)
       ELSE IF found # {}
       THEN checkExitConditions(f, i, CHOOSE k \in found : \A j \in found : k <= j,
                                levelHit, signal, confidence)
       ELSE checkEntryConditions(f, i, symbol, signal, confidence)

\* the 60 s interval callback: bot.checkAndExecuteTrades(SUPPORTED_SYMBOLS);
\* the portfolio is there, each bot was initialized before the timer started
CheckAndExecuteTradesStart ==
    /\ Len(feed.runs) < MaxRuns
    /\ feed' = [feed EXCEPT !.runs = Append(@, [left |-> tradeSymbols,
                                                pc |-> "analyzeSymbol",
                                                acted |-> FALSE])]
    /\ UNCHANGED <<ohlc, clock, ticks, inbox, ret>>

\* await this.strategyEngine.analyzeSymbol(symbol, plan) returns
AnalysisReturned ==
    \E i \in 1..Len(feed.runs), priced \in BOOLEAN, levelHit \in BOOLEAN,
       signal \in Signals, confidence \in Confidences :
        /\ feed.runs[i].pc = "analyzeSymbol"
        /\ feed' = checkSymbol(feed, i, priced, levelHit, signal, confidence)
        /\ UNCHANGED <<ohlc, clock, ticks, inbox, ret>>

\* the awaits of an entry or an exit return (updateMetrics, Telegram)
NotificationReturned ==
    \E i \in 1..Len(feed.runs) :
        /\ feed.runs[i].pc = "sendTelegramNotification"
        /\ feed' = nextSymbol(feed, i)
        /\ UNCHANGED <<ohlc, clock, ticks, inbox, ret>>

\* await this.save() returns and the run ends
SaveReturned ==
    \E i \in 1..Len(feed.runs) :
        /\ feed.runs[i].pc = "save"
        /\ feed' = [feed EXCEPT !.runs = RemoveAt(@, i)]
        /\ UNCHANGED <<ohlc, clock, ticks, inbox, ret>>

InitPaper ==
    /\ ohlc = OHLCCacheNew
    /\ clock = 60000
    /\ ticks = NoTicks
    /\ feed = PaperTradingNew
    /\ inbox = null
    /\ ret = NoCall

NextPaper ==
    \/ CheckAndExecuteTradesStart
    \/ AnalysisReturned
    \/ NotificationReturned
    \/ SaveReturned

SpecPaper == InitPaper /\ [][NextPaper]_vars

-----------------------------------------------------------------------------
(* BinanceWS (modules/binance-ws.js): the connector and the sockets it has *)
(* created.  ws is the state of the socket this.ws refers to ("none" while *)
(* this.ws is null); the sockets no longer referred to keep their handlers *)
(* and are counted in others, by state.  timers counts the pending         *)
(* setTimeout callbacks of scheduleReconnect, created the sockets made so  *)
(* far, disconnected says that disconnect() has run on a connector with a  *)
(* socket, and lastConnect how the last connect() call ended.              *)
(***************************************************************************)

MaxCreated == 3         \* sockets one connector creates in one run

maxReconnectAttempts == 10

SocketStates == {"connecting", "open", "closing"}

\* config.enabled !== false
BinanceWSNew(enabled) ==
    [enabled |-> enabled,
     ws |-> "none",
     reconnectAttempts |-> 0,
     isConnected |-> FALSE,
     others |-> [k \in SocketStates |-> 0],
     timers |-> 0,
     created |-> 0,
     disconnected |-> FALSE,
     lastConnect |-> "none"]

binanceScheduleReconnect(f) ==
    IF f.reconnectAttempts >= maxReconnectAttempts
    THEN f
    ELSE [f EXCEPT !.reconnectAttempts = @ + 1, !.timers = @ + 1]

\* this.ws = new WebSocket(url): the socket referred to before keeps its handlers
binanceNewSocket(f) ==
    LET f1 == IF f.ws \in SocketStates THEN [f EXCEPT !.others[f.ws] = @ + 1] ELSE f
    IN [f1 EXCEPT !.ws = "connecting", !.created = @ + 1, !.lastConnect = "created"]

\* a connect() that opens a connection whether enabled or not
binanceConnectAlways(f, constructed) ==
    IF constructed
    THEN binanceNewSocket(f)
    ELSE [binanceScheduleReconnect(f) EXCEPT !.lastConnect = "threw"]

\* connect(): constructed is false when new WebSocket(url) throws
binanceConnect(f, constructed) ==
    IF ~f.enabled
    THEN [f EXCEPT !.lastConnect = "disabled"]
    ELSE IF constructed
    THEN binanceNewSocket(f)
    ELSE [binanceScheduleReconnect(f) EXCEPT !.lastConnect = "threw"]

binanceOnOpen(f) == [f EXCEPT !.isConnected = TRUE, !.reconnectAttempts = 0]

binanceOnError(f) == [f EXCEPT !.isConnected = FALSE]

binanceOnClose(f) == binanceScheduleReconnect([f EXCEPT !.isConnected = FALSE])

\* disconnect(): this.ws.close() starts the closing of a socket that is
\* connecting or open; the socket is no longer referred to afterwards
binanceDisconnect(f) ==
    IF f.ws = "none"
    THEN f
    ELSE LET f1 == IF f.ws \in SocketStates
                   THEN [f EXCEPT !.others["closing"] = @ + 1]
                   ELSE f
         IN [f1 EXCEPT !.enabled = FALSE, !.ws = "none", !.disconnected = TRUE]

\* a caller's connect()
BinanceConnect ==
    \E constructed \in BOOLEAN :
        /\ feed.enabled => feed.created < MaxCreated
        /\ feed.timers < MaxPending
        /\ feed' = binanceConnect(feed, constructed)
        /\ UNCHANGED <<ohlc, clock, ticks, inbox, ret>>

\* the setTimeout callback of scheduleReconnect: this.connect()
BinanceReconnectFire ==
    \E constructed \in BOOLEAN :
        /\ feed.timers > 0
        /\ feed.enabled => feed.created < MaxCreated
        /\ feed' = binanceConnect([feed EXCEPT !.timers = @ - 1], constructed)
        /\ UNCHANGED <<ohlc, clock, ticks, inbox, ret>>

\* 'open' of the socket this.ws refers to
BinanceSocketOpen ==
    /\ feed.ws = "connecting"
    /\ feed' = binanceOnOpen([feed EXCEPT !.ws = "open"])
    /\ UNCHANGED <<ohlc, clock, ticks, inbox, ret>>

\* 'open' of a socket no longer referred to
BinanceOtherOpen ==
    /\ feed.others["connecting"] > 0
    /\ feed' = binanceOnOpen([feed EXCEPT !.others["connecting"] = @ - 1,
                                          !.others["open"] = @ + 1])
    /\ UNCHANGED <<ohlc, clock, ticks, inbox, ret>>

\* 'error' of the socket this.ws refers to; the ws library closes it next
BinanceSocketError ==
    /\ feed.ws \in {"connecting", "open"}
    /\ feed' = binanceOnError([feed EXCEPT !.ws = "closing"])
    /\ UNCHANGED <<ohlc, clock, ticks, inbox, ret>>

BinanceOtherError ==
    \E k \in {"connecting", "open"} :
        /\ feed.others[k] > 0
        /\ feed' = binanceOnError([feed EXCEPT !.others[k] = @ - 1,
                                               !.others["closing"] = @ + 1])
        /\ UNCHANGED <<ohlc, clock, ticks, inbox, ret>>

\* 'close' of the socket this.ws refers to, closed by the peer or after an error
BinanceSocketClose ==
    /\ feed.ws \in SocketStates
    /\ feed' = binanceOnClose([feed EXCEPT !.ws = "closed"])
    /\ UNCHANGED <<ohlc, clock, ticks, inbox, ret>>

\* 'close' of a socket no longer referred to, the one disconnect() closed among them
BinanceOtherClose ==
    \E k \in SocketStates :
        /\ feed.others[k] > 0
        /\ feed' = binanceOnClose([feed EXCEPT !.others[k] = @ - 1])
        /\ UNCHANGED <<ohlc, clock, ticks, inbox, ret>>

BinanceDisconnect ==
    /\ feed' = binanceDisconnect(feed)
    /\ UNCHANGED <<ohlc, clock, ticks, inbox, ret>>

InitBinance ==
    /\ ohlc = OHLCCacheNew
    /\ clock = 180000
    /\ ticks = NoTicks
    /\ feed \in {BinanceWSNew(enabled) : enabled \in BOOLEAN}
    /\ inbox = null
    /\ ret = NoCall

NextBinance ==
    \/ BinanceConnect
    \/ BinanceReconnectFire
    \/ BinanceSocketOpen
    \/ BinanceOtherOpen
    \/ BinanceSocketError
    \/ BinanceOtherError
    \/ BinanceSocketClose
    \/ BinanceOtherClose
    \/ BinanceDisconnect

SpecBinance == InitBinance /\ [][NextBinance]_vars

-----------------------------------------------------------------------------
(* HTTPFallback.fetchPrice (modules/http-fallback.js): one call at a time, *)
(* paused at its awaits.  feed holds the connector (enabled, lastFetchTime) *)
(* and the call under way: its symbol, its retryCount, the value of now of *)
(* the current attempt, the delay and due time of the retry timer, and its *)
(* result.  requests and failed count the requests the call has made and   *)
(* those that failed; errors0 and ticks0 are the symbol's error counter    *)
(* and the number of updateTick calls when the call started.               *)
(***************************************************************************)

MaxFetchCalls == 2      \* fetchPrice calls in one run

maxRetries == 3
baseDelay == 1000
maxDelay == 30000
minFetchInterval == 2000

\* this.symbolMap[symbol]: the symbols that have a CoinGecko id
hasCoinId(symbol) == symbol \in Symbols

Bodies == {"invalid", "noPrice", "price"}

\* data[coinId].usd of a body that has a price
FetchedPrices == {100}

HTTPFallbackNew(enabled) ==
    [enabled |-> enabled,
     lastFetchTime |-> [s \in Symbols |-> 0],
     calls |-> 0,
     pc |-> "idle",
     symbol |-> "btc",
     retryCount |-> 0,
     now |-> 0,
     delay |-> 0,
     due |-> 0,
     requests |-> 0,
     failed |-> 0,
     errors0 |-> 0,
     ticks0 |-> 0,
     result |-> "none"]

\* Math.min(this.baseDelay * Math.pow(2, retryCount), this.maxDelay)
retryDelay(retryCount) == Min(baseDelay * Pow2(retryCount), maxDelay)

\* one retry more than maxRetries
mayRetryOnceMore(retryCount) == retryCount <= maxRetries

\* retryCount < this.maxRetries
mayRetry(retryCount) == retryCount < maxRetries

fetchPriceReturn(f, result) == [f EXCEPT !.pc = "done", !.result = result]

\* fetchPrice(symbol, retryCount) up to its first await
fetchPriceEnter(f, dateNow) ==
    IF ~f.enabled THEN fetchPriceReturn(f, "null")
    ELSE IF ~hasCoinId(f.symbol) THEN fetchPriceReturn(f, "null")
    ELSE IF dateNow - f.lastFetchTime[f.symbol] < minFetchInterval
    THEN fetchPriceReturn(f, "null")
    ELSE [f EXCEPT !.pc = "fetch", !.now = dateNow, !.requests = @ + 1]

\* the catch block after recordError: the retry timer is set, or null returned
fetchPriceCatch(f, dateNow) ==
    IF mayRetry(f.retryCount)
    THEN [f EXCEPT !.pc = "delay",
                   !.failed = @ + 1,
                   !.delay = retryDelay(f.retryCount),
                   !.due = dateNow + retryDelay(f.retryCount)]
    ELSE fetchPriceReturn([f EXCEPT !.failed = @ + 1], "null")

\* a caller's fetchPrice(symbol)
CallFetchPrice ==
    \E symbol \in Symbols \cup {"foo"} :
        /\ feed.pc \in {"idle", "done"}
        /\ feed.calls < MaxFetchCalls
        /\ feed' = fetchPriceEnter(
                       [feed EXCEPT !.calls = @ + 1, !.symbol = symbol, !.retryCount = 0,
                                    !.requests = 0, !.failed = 0, !.result = "none",
                                    !.errors0 = IF symbol \in DOMAIN ohlc.errors
                                                THEN ohlc.errors[symbol] ELSE 0,
                                    !.ticks0 = ticks.n],
                       clock)
        /\ UNCHANGED <<ohlc, clock, ticks, inbox, ret>>

\* time passes between two calls
FetchClockAdvance ==
    /\ feed.pc = "done"
    /\ feed.calls < MaxFetchCalls
    /\ clock - feed.now < minFetchInterval
    /\ clock' = clock + minFetchInterval
    /\ UNCHANGED <<ohlc, ticks, feed, inbox, ret>>

\* await fetch(url) rejects, or the response is not ok and the code throws
FetchFails ==
    /\ feed.pc = "fetch"
    /\ ohlc' = recordError(ohlc, feed.symbol)
    /\ feed' = fetchPriceCatch(feed, clock)
    /\ UNCHANGED <<clock, ticks, inbox, ret>>

\* await fetch(url) returns a response that is ok
FetchResponds ==
    /\ feed.pc = "fetch"
    /\ feed' = [feed EXCEPT !.pc = "json"]
    /\ UNCHANGED <<ohlc, clock, ticks, inbox, ret>>

\* await response.json() rejects, or the body is parsed and looked up
JsonReturned ==
    \E body \in Bodies, p \in FetchedPrices :
        /\ feed.pc = "json"
        /\ IF body = "invalid"
           THEN /\ ohlc' = recordError(ohlc, feed.symbol)
                /\ feed' = fetchPriceCatch(feed, clock)
                /\ UNCHANGED ticks
           ELSE IF body = "price"
           THEN /\ ohlc' = updateTick(ohlc, feed.symbol, p, "http", null, clock)
                /\ ticks' = [n |-> ticks.n + 1, symbol |-> feed.symbol, price |-> p,
                              source |-> "http", timestamp |-> null]
                /\ feed' = fetchPriceReturn(
                               [feed EXCEPT !.lastFetchTime[feed.symbol] = feed.now],
                               "price")
           ELSE /\ feed' = fetchPriceReturn(feed, "null")
                /\ UNCHANGED <<ohlc, ticks>>
        /\ UNCHANGED <<clock, inbox, ret>>

\* the retry timer fires when it is due: fetchPrice(symbol, retryCount + 1)
RetryFire ==
    /\ feed.pc = "delay"
    /\ clock' = feed.due
    /\ feed' = fetchPriceEnter([feed EXCEPT !.retryCount = @ + 1], clock')
    /\ UNCHANGED <<ohlc, ticks, inbox, ret>>

InitFetch ==
    /\ ohlc = OHLCCacheNew
    /\ clock = 180000
    /\ ticks = NoTicks
    /\ feed \in {HTTPFallbackNew(enabled) : enabled \in BOOLEAN}
    /\ inbox = null
    /\ ret = NoCall

\* the events that the pending request or timer of a call brings about
FetchSettles ==
    \/ FetchFails
    \/ FetchResponds
    \/ JsonReturned
    \/ RetryFire

NextFetch ==
    \/ CallFetchPrice
    \/ FetchClockAdvance
    \/ FetchFails
    \/ FetchResponds
    \/ JsonReturned
    \/ RetryFire

\* every request is answered or fails in the end, and every timer fires
SpecFetch == InitFetch /\ [][NextFetch]_vars /\ WF_vars(FetchSettles)

-----------------------------------------------------------------------------
(* Properties of the feed connector (SpecFeed) *)

\* C1: after shutdown() has completed no reconnect is scheduled, no bootstrap
\* request is started, no socket is created, and no ping, renewal or
\* fallback-poll timer is active, whatever fires afterwards.
C1_ShutdownStopsConnector ==
    [][feed.pcShutdown = "done" =>
          /\ feed'.reconnectTimers <= feed.reconnectTimers
          /\ InFlight(feed') <= InFlight(feed)
          /\ Live(feed') <= Live(feed)
          /\ ~feed'.pingInterval /\ feed'.pingLeaked = 0
          /\ ~feed'.tokenRenewalInterval /\ feed'.renewLeaked = 0
          /\ ~feed'.fallbackActive]_vars

BackoffCapMs == 30000

\* C2: the delay of the n-th consecutive reconnect is min(base * 2^(n-1), 30000):
\* whenever scheduleReconnect arms a timer, its delay is that of the attempt
\* number it has just counted.
C2_BackoffFormula ==
    [][feed'.reconnectTimers > feed.reconnectTimers =>
          feed'.lastDelay =
              Min(wsReconnectDelay * Pow2(feed'.wsReconnectAttempts - 1), BackoffCapMs)]_vars

\* The connector has made its last attempt: the counter is at the maximum and
\* nothing is pending, in flight or connected.
GaveUp(f) ==
    /\ f.wsReconnectAttempts >= wsMaxReconnectAttempts
    /\ f.reconnectTimers = 0
    /\ InFlight(f) = 0
    /\ Live(f) = 0

\* C3: once the connector has given up after the maximum number of attempts it
\* stays so: no further connection attempt is ever made.
C3_GiveUpIsPermanent == [][GaveUp(feed) => GaveUp(feed')]_vars

C5_FailedBootstrapSchedulesOne ==
    [][BootstrapFail =>
          /\ feed'.ws = feed.ws /\ feed'.orphans = feed.orphans
          /\ ~feed'.crashed
          /\ feed.pcInit = "awaitConnect" /\ feed.bootstraps["init"] > 0 => feed'.pcInit = "done"
          /\ InFlight(feed') = InFlight(feed) - 1
          /\ feed'.reconnectTimers = feed.reconnectTimers + 1]_vars

\* C5, amended: ... and schedules exactly one reconnect unless the attempt
\* counter has reached the maximum, in which case it schedules none.
C5_FailedBootstrapSchedulesOneBelowCap ==
    [][BootstrapFail =>
          /\ feed'.ws = feed.ws /\ feed'.orphans = feed.orphans
          /\ ~feed'.crashed
          /\ feed.pcInit = "awaitConnect" /\ feed.bootstraps["init"] > 0 => feed'.pcInit = "done"
          /\ InFlight(feed') = InFlight(feed) - 1
          /\ feed'.reconnectTimers =
                 feed.reconnectTimers +
                 (IF feed.wsReconnectAttempts < wsMaxReconnectAttempts THEN 1 ELSE 0)]_vars

\* the first bootstrap failed: no socket was ever created, one reconnect is pending
C5_Witness ==
    /\ feed.ws = "none" /\ feed.pcInit = "done"
    /\ feed.wsReconnectAttempts = 1 /\ feed.reconnectTimers = 1
    /\ InFlight(feed) = 0

\* C6: every socket that is open has been sent exactly one subscribe message.
C6_OneSubscribePerSocket ==
    /\ feed.ws = "open" => feed.wsSubs = 1
    /\ feed.orphans["openBad"] = 0

\* C7: the ping timer is cancelled when the socket closes: while no socket is
\* open or closing, no ping interval is active.
C7_NoPingTimerWithoutSocket ==
    (/\ feed.ws \notin {"open", "closing"}
     /\ feed.orphans["openOk"] + feed.orphans["openBad"] + feed.orphans["closing"] = 0)
    => (~feed.pingInterval /\ feed.pingLeaked = 0)

-----------------------------------------------------------------------------
(* Properties of message handling (SpecMsg) *)

FinitePositive(x) == x # NaN /\ 0 < x /\ x < Infinity

IsDataUpdate(m) ==
    m.json = "object" /\ m.type = "message" /\ m.topic = TickerTopic /\ m.data

\* C8: handling a message leaves the connector as it was (no exception, same
\* connection state, counter and timers); it changes the cache only for a data
\* update of a tracked symbol with a finite positive price, and never for an
\* unknown symbol.
C8_MessageHandlerIsolated ==
    [][(inbox # null /\ inbox' = null) =>
          /\ feed' = feed
          /\ ohlc' # ohlc =>
                /\ IsDataUpdate(inbox[1])
                /\ findSymbol(inbox[1].subject) # {}
                /\ FinitePositive(extractPrice(inbox[1]))
          /\ findSymbol(inbox[1].subject) = {} => ohlc' = ohlc]_vars

\* C9: the connector calls updateTick only with a finite positive price: the
\* last tick it recorded for a symbol has one.
C9_FeedPriceFinitePositive ==
    \A s \in Symbols :
        (ohlc.lastTick[s] # null /\ ohlc.lastTick[s][1].source = "kucoin-ws")
            => FinitePositive(ohlc.lastTick[s][1].price)

-----------------------------------------------------------------------------
(* Properties of the cache (SpecCache) *)

\* C10: a tick whose bucket is earlier than the current candle's updates that
\* candle in place (high, low, close) and leaves the completed candles alone.
C10_StaleTickUpdatesCurrent ==
    [][ticks'.n > ticks.n =>
          LET s == ticks'.symbol
              tick == ohlc'.lastTick[s][1]
          IN \A tf \in Timeframes :
                LET cur == ohlc.currentCandles[s][tf]
                IN (cur # null /\ Bucket(tick.time, tf) < cur[1].time) =>
                      /\ ohlc'.cache[s][tf] = ohlc.cache[s][tf]
                      /\ ohlc'.currentCandles[s][tf] =
                            <<[cur[1] EXCEPT !.high = Max(cur[1].high, tick.price),
                                             !.low = Min(cur[1].low, tick.price),
                                             !.close = tick.price]>>]_vars

\* The timestamp of a tick as the caller gave it: the argument, or the clock when
\* the argument is omitted.
GivenTime(timestamp, dateNow) == IF timestamp = null THEN dateNow ELSE timestamp[1]

\* C11: after updateTick with timestamp t (given, or the clock when omitted) the
\* current candle of every timeframe starts at floor(t / D) * D, and a tick in the
\* bucket of the current candle leaves its start unchanged.
C11_BucketStartOfTick ==
    [][ticks'.n > ticks.n =>
          LET s == ticks'.symbol
              t == GivenTime(ticks'.timestamp, clock)
          IN \A tf \in Timeframes :
                LET cur == ohlc.currentCandles[s][tf]
                    new == ohlc'.currentCandles[s][tf]
                IN /\ new # null
                   /\ new[1].time = Bucket(t, tf)
                   /\ (cur # null /\ cur[1].time = Bucket(t, tf)) =>
                          new[1].time = cur[1].time]_vars

\* C20: after updateTick(symbol, price, source, t) the latest tick of the symbol is
\* {price, t, source}, whatever it was before.
C20_LatestTickLastWriteWins ==
    [][ticks'.n > ticks.n =>
          getLatestPrice(ohlc', ticks'.symbol) =
              [kind |-> "value",
               value |-> <<[price |-> ticks'.price,
                            time |-> GivenTime(ticks'.timestamp, clock),
                            source |-> ticks'.source]>>]]_vars

-----------------------------------------------------------------------------
(* Properties of candles built from ticks (SpecCandle) *)

Ordered(candle) ==
    /\ candle.low <= candle.open /\ candle.open <= candle.high
    /\ candle.low <= candle.close /\ candle.close <= candle.high

\* C12: every candle built from ticks, the current one and the completed ones,
\* has low <= open <= high and low <= close <= high.
C12_CandlesOrdered ==
    \A s \in Symbols, tf \in Timeframes :
        /\ ohlc.currentCandles[s][tf] # null => Ordered(ohlc.currentCandles[s][tf][1])
        /\ \A i \in 1..Len(ohlc.cache[s][tf]) : Ordered(ohlc.cache[s][tf][i])

\* a completed candle that two ticks of different prices built, and a current one
C12_Witness ==
    \E s \in Symbols, tf \in Timeframes :
        /\ ohlc.currentCandles[s][tf] # null
        /\ Len(ohlc.cache[s][tf]) > 0
        /\ ohlc.cache[s][tf][1].low < ohlc.cache[s][tf][1].high

IsSuffix(a, b) == Len(a) <= Len(b) /\ a = SubSeq(b, Len(b) - Len(a) + 1, Len(b))

\* C13: updateTick, for each timeframe: with no current candle, or one of another
\* bucket than the tick's, the current candle (if any) becomes the newest
\* completed candle, unchanged, and a new current candle opens at the tick's
\* bucket with open = high = low = close = price and volume 0; otherwise the
\* completed candles are unchanged and the current candle gets
\* high = max(high, price), low = min(low, price), close = price.  The tick's
\* time is the one updateTick resolved (C11 is about that resolution).
C13_RolloverOrUpdate ==
    [][ticks'.n > ticks.n =>
          LET s == ticks'.symbol
              price == ticks'.price
              time == ohlc'.lastTick[s][1].time
          IN \A tf \in Timeframes :
                LET cur == ohlc.currentCandles[s][tf]
                    hist == ohlc.cache[s][tf]
                    hist2 == ohlc'.cache[s][tf]
                    opened == [time |-> Bucket(time, tf), open |-> price, high |-> price,
                               low |-> price, close |-> price, volume |-> 0]
                IN IF cur = null
                   THEN hist2 = hist /\ ohlc'.currentCandles[s][tf] = <<opened>>
                   ELSE IF cur[1].time # Bucket(time, tf)
                   THEN /\ IsSuffix(hist2, Append(hist, cur[1]))
                        /\ Len(hist2) = Min(Len(hist) + 1, maxBars)
                        /\ ohlc'.currentCandles[s][tf] = <<opened>>
                   ELSE /\ hist2 = hist
                        /\ ohlc'.currentCandles[s][tf] =
                              <<[cur[1] EXCEPT !.high = Max(cur[1].high, price),
                                               !.low = Min(cur[1].low, price),
                                               !.close = price]>>]_vars

\* a candle updated in place was completed by a rollover
C13_Witness ==
    \E s \in Symbols, tf \in Timeframes :
        /\ Len(ohlc.cache[s][tf]) = 1
        /\ ohlc.cache[s][tf][1].open # ohlc.cache[s][tf][1].close
        /\ ohlc.currentCandles[s][tf] # null
        /\ ohlc.currentCandles[s][tf][1].time # ohlc.cache[s][tf][1].time

-----------------------------------------------------------------------------
(* Properties of ticks and historical loads together (SpecBars) *)

\* the step is a tick of s that finds a current candle of another bucket in tf
\* while maxBars completed candles are stored
RolloverAtCapacity(s, tf) ==
    /\ ticks'.n > ticks.n
    /\ ticks'.symbol = s
    /\ ohlc.currentCandles[s][tf] # null
    /\ ohlc.currentCandles[s][tf][1].time # Bucket(ohlc'.lastTick[s][1].time, tf)
    /\ Len(ohlc.cache[s][tf]) = maxBars

\* C15: after every updateTick and every loadHistoricalBars, no (symbol, timeframe)
\* stores more than maxBars completed candles; a rollover at capacity drops the
\* oldest stored candle, keeps the others in their order and appends the candle
\* that was current.
C15_CappedFifo ==
    [][\A s \in Symbols, tf \in Timeframes :
          /\ Len(ohlc'.cache[s][tf]) <= maxBars
          /\ RolloverAtCapacity(s, tf) =>
                ohlc'.cache[s][tf] =
                    Append(Tail(ohlc.cache[s][tf]), ohlc.currentCandles[s][tf][1])]_vars

\* a key loaded with more than maxBars bars has lost its oldest stored bar to a
\* candle built from ticks
C15_Witness ==
    \E s \in Symbols, tf \in Timeframes :
        LET hist == ohlc.cache[s][tf]
        IN /\ Len(hist) = maxBars
           /\ hist[1] \in {HistBar(i) : i \in 3..(maxBars + 1)}
           /\ hist[maxBars].open \in TickPrices

Closes(bars) == [i \in 1..Len(bars) |-> bars[i].close]

LastOf(bars, k) == SubSeq(bars, Len(bars) - k + 1, Len(bars))

\* C17: loadHistoricalBars(symbol, timeframe, bars) stores exactly the last
\* maxBars elements of bars under the key and leaves every other key as it was,
\* and a getBars of the key that follows with a count n, 0 included, returns the
\* closes of the last min(n, maxBars, |bars|) bars loaded, in their order.
C17_LoadThenGetBars ==
    [][ret'.loads > ret.loads =>
          LET s == ret'.args[1]
              tf == ret'.args[2]
              bars == ret'.args[3]
          IN /\ ohlc'.cache[s][tf] = LastOf(bars, Min(maxBars, Len(bars)))
             /\ \A s2 \in Symbols, tf2 \in Timeframes :
                   <<s2, tf2>> # <<s, tf>> => ohlc'.cache[s2][tf2] = ohlc.cache[s2][tf2]
             /\ \A n \in 0..(maxBars + 2) :
                   Closes(getBars(ohlc', s, tf, n)) =
                       Closes(LastOf(bars, Min(n, Min(maxBars, Len(bars)))))]_vars

-----------------------------------------------------------------------------
(* Properties of the cache called from outside (SpecRead); every step of   *)
(* it is the call that ret' describes                                      *)

\* C16: getBars(symbol, timeframe, n) with n >= 0, 0 included, returns at most
\* min(n, stored length) entries, which are the most recent stored candles from
\* oldest to newest, and leaves the cache as it was.
C16_GetBarsAtMostCount ==
    [][ret'.op = "getBars" =>
          LET s == ret'.args[1]
              tf == ret'.args[2]
              n == ret'.args[3]
              stored == IF s \in Symbols /\ tf \in Timeframes THEN ohlc.cache[s][tf]
                        ELSE << >>
          IN /\ ret'.kind = "value"
             /\ Len(ret'.value) <= Min(n, Len(stored))
             /\ ret'.value = LastOf(stored, Len(ret'.value))
             /\ ohlc' = ohlc]_vars

\* the call of the step names a symbol or a timeframe that is not tracked
UntrackedCall ==
    \/ ret'.args[1] \notin Symbols
    \/ Len(ret'.args) >= 2 /\ ret'.args[2] \notin Timeframes

\* C18: updateTick, loadHistoricalBars, getBars, getLatestPrice and recordError,
\* called with a symbol or a timeframe that is not tracked, return an empty or
\* default value without throwing and leave every tracked symbol and every
\* tracked (symbol, timeframe) as it was.
C18_UntrackedKeyIsHarmless ==
    [][UntrackedCall =>
          /\ ret'.kind # "throw"
          /\ ret'.value = << >>
          /\ \A s \in Symbols :
                /\ ohlc'.lastTick[s] = ohlc.lastTick[s]
                /\ ohlc'.errors[s] = ohlc.errors[s]
                /\ \A tf \in Timeframes :
                      /\ ohlc'.cache[s][tf] = ohlc.cache[s][tf]
                      /\ ohlc'.currentCandles[s][tf] = ohlc.currentCandles[s][tf]]_vars

-----------------------------------------------------------------------------
(* Properties of stale detection (SpecStale) *)

\* C19: getStaleSymbols(maxAgeMs) returns exactly the tracked symbols that have
\* no latest tick or whose latest tick is more than maxAgeMs before now; a symbol
\* without a tick for longer than maxAgeMs is listed, one updated within
\* maxAgeMs is not.
C19_StaleExactly ==
    [][(ret' # ret /\ ret'.op = "getStaleSymbols") =>
          LET maxAgeMs == ret'.args[1]
              Absent(s) == ohlc.lastTick[s] = null
              Age(s) == clock - ohlc.lastTick[s][1].time
          IN /\ ret'.kind = "value"
             /\ ret'.value = {s \in Symbols : Absent(s) \/ Age(s) > maxAgeMs}
             /\ \A s \in Symbols :
                   /\ (~Absent(s) /\ Age(s) > maxAgeMs) => s \in ret'.value
                   /\ (~Absent(s) /\ Age(s) <= maxAgeMs) => s \notin ret'.value]_vars

\* of two symbols with a latest tick, the one whose tick is just maxAgeMs old is
\* left out and the one whose tick is older is listed
C19_Witness ==
    /\ ret.op = "getStaleSymbols"
    /\ \E s1, s2 \in Symbols :
          /\ ohlc.lastTick[s1] # null /\ ohlc.lastTick[s2] # null
          /\ clock - ohlc.lastTick[s1][1].time > ret.args[1]
          /\ clock - ohlc.lastTick[s2][1].time = ret.args[1]
          /\ s1 \in ret.value /\ s2 \notin ret.value

-----------------------------------------------------------------------------
(* Properties of the candle scenario (SpecScenario) *)

\* the step of the fifth tick closes, in every timeframe whose bucket it leaves,
\* the candle {open 100, high, low 99, close 102} and opens the current candle
\* at its own price
ClosedCandleOfFourTicks(high) ==
    (ticks.n = Len(ScenarioPrices) /\ ticks'.n = ticks.n + 1) =>
        LET s == ticks'.symbol
            time == ohlc'.lastTick[s][1].time
        IN \A tf \in Timeframes :
              Bucket(time, tf) > Bucket(ScenarioBucket, tf) =>
                 LET hist2 == ohlc'.cache[s][tf]
                 IN /\ hist2 # << >>
                    /\ hist2[Len(hist2)] =
                          [time |-> Bucket(ScenarioBucket, tf), open |-> 100, high |-> high,
                           low |-> 99, close |-> 102, volume |-> 0]
                    /\ ohlc'.currentCandles[s][tf] =
                          <<[time |-> Bucket(time, tf), open |-> ticks'.price,
                             high |-> ticks'.price, low |-> ticks'.price,
                             close |-> ticks'.price, volume |-> 0]>>

\* C14 as stated: after ticks at 100, 101, 99, 102 in one bucket, a tick in a
\* later bucket closes the candle {open 100, high 101, low 99, close 102} into
\* the completed candles and opens the current candle at its own price.
C14_ClosedCandleHigh101 == [][ClosedCandleOfFourTicks(101)]_vars

\* C14 amended: the closed candle is {open 100, high 102, low 99, close 102},
\* its high being the largest of the four prices, and the current candle opens
\* at the price of the tick that closed it.
C14_ClosedCandleHigh102 == [][ClosedCandleOfFourTicks(102)]_vars

\* the fifth tick has closed the candle of every timeframe, the hour's included
C14_Witness ==
    /\ ticks.n = Len(ScenarioPrices) + 1
    /\ \A tf \in Timeframes : Len(ohlc.cache[ticks.symbol][tf]) = 1

-----------------------------------------------------------------------------
(* Properties of handlers step by step (SpecAtomic) *)

\* the cache that the method on the call stack leaves when it returns now
WholeCall ==
    IF feed.pc = "updateTick"
    THEN updateTick(feed.before[1], feed.args[1], feed.args[2], "kucoin-ws",
                    <<feed.args[3]>>, clock)
    ELSE loadHistoricalBars(feed.before[1], feed.args[1], feed.args[2], feed.args[3], clock)

-----------------------------------------------------------------------------
(* Properties of the connector with the fallback timers (SpecFeedPoll) *)

\* C22: once initialize() has run, and until shutdown, the fallback interval is
\* set and keeps firing whatever the connector does: a failed bootstrap, an open
\* socket, a reconnect under way or the give-up state never stop it.
C22_FallbackAlwaysOn ==
    (feed.pcInit = "done" /\ feed.pcShutdown = "no") =>
        (feed.fallbackInterval /\ fallbackRuns(feed))

-----------------------------------------------------------------------------
(* Properties of the fallback poller (SpecPoll) *)

TimerFired == feed'.cycles # feed.cycles \/ feed'.timeoutDue # feed.timeoutDue

RequestIssued ==
    /\ feed'.pending = Append(feed.pending, clock)
    /\ feed'.issued = <<clock>>

\* C23: a batch request answered with 429 is skipped silently: the step writes
\* nothing to the cache (no updateTick, no recordError), leaves
\* lastFallbackFetch and the timers alone and issues no request; requests are
\* issued at timer firings only, and the firing that follows a rate-limited
\* request issues one.
C23_RateLimitSkipsCycle ==
    [][/\ (Len(feed'.pending) < Len(feed.pending) /\ ret'.kind = "rateLimited") =>
            /\ ohlc' = ohlc
            /\ feed'.lastFallbackFetch = feed.lastFallbackFetch
            /\ feed'.issued = feed.issued
            /\ Len(feed'.pending) = Len(feed.pending) - 1
            /\ ~TimerFired
            /\ feed'.intervalDue = feed.intervalDue
       /\ Len(feed'.pending) > Len(feed.pending) => TimerFired
       /\ (feed.skipped /\ TimerFired) => RequestIssued]_vars

C23_Witness ==
    /\ ret.kind = "rateLimited"
    /\ feed.skipped
    /\ feed.lastFallbackFetch > 0
    /\ feed.cycles > 0
    /\ feed.pending = << >>

\* C24: no two batch requests are issued less than minFallbackInterval apart.
C24_MinimumGap ==
    [][(Len(feed'.pending) > Len(feed.pending) /\ feed.issued # null) =>
            clock - feed.issued[1] >= minFallbackInterval]_vars

-----------------------------------------------------------------------------
(* Properties of the startup (SpecStartup) *)

WarmCheckDone == feed.pc = "checkIfNeedsHistoricalData" /\ feed'.pc # feed.pc

SomeSampleCold ==
    \E i \in 1..Min(3, Len(feedSymbols)) :
        Len(ohlc.cache[feedSymbols[i]]["1h"]) < warmBars

\* C25: the backfill is skipped only when every sampled symbol holds the
\* threshold of 1h bars; it runs as soon as one sampled symbol holds fewer.
C25_BackfillUnlessEverySampleWarm ==
    [][WarmCheckDone => (feed'.pc = "fetchHistoricalData" <=> SomeSampleCold)]_vars

\* C26: a snapshot that is missing, unreadable or corrupt (the load ends in
\* its catch block) is followed by the network backfill; initialize ends with
\* the connection and the poller started; the snapshot write, failing or not,
\* leaves the cache alone and initialize goes on.
C26_SnapshotFailureForcesBackfill ==
    [][/\ (WarmCheckDone /\ feed.loadThrew) => feed'.pc = "fetchHistoricalData"
       /\ feed'.pc = "done" => (feed'.connecting /\ feed'.polling)
       /\ (feed.pc = "saveHistoricalCache" /\ feed'.pc # feed.pc) =>
            (feed'.pc = "connectKuCoinWebSocket" /\ ohlc' = ohlc)]_vars

-----------------------------------------------------------------------------
(* Properties of determineSignal (SpecSignal) *)

VotesTotal == feed.votes.BUY + feed.votes.SELL + feed.votes.HOLD

\* the shares compared as fractions of the same positive total
BuyShareOver40 == feed.votes.BUY * 100 > 40 * VotesTotal
SellShareOver40 == feed.votes.SELL * 100 > 40 * VotesTotal

\* C28: for vote totals with a positive sum the signal is BUY iff the buy share
\* is over 40 and over the sell share, SELL iff the sell share is over 40 and
\* over the buy share, and HOLD otherwise; a buy share of exactly 40 and equal
\* shares give HOLD.
C28_SignalByShares ==
    (ret.op = "determineSignal" /\ VotesTotal > 0) =>
        /\ ret.value.signal = "BUY" <=>
                (BuyShareOver40 /\ feed.votes.BUY > feed.votes.SELL)
        /\ ret.value.signal = "SELL" <=>
                (SellShareOver40 /\ feed.votes.SELL > feed.votes.BUY)
        /\ ret.value.signal \in {"BUY", "SELL", "HOLD"}
        /\ feed.votes.BUY * 100 = 40 * VotesTotal => ret.value.signal # "BUY"
        /\ feed.votes.BUY = feed.votes.SELL => ret.value.signal = "HOLD"

C28_Witness ==
    /\ ret.op = "determineSignal"
    /\ feed.votes = [BUY |-> 2, SELL |-> 1, HOLD |-> 2]
    /\ ret.value.signal = "HOLD"

-----------------------------------------------------------------------------
(* Properties of calculateSLTP (SpecSltp) *)

\* C30: the levels are on the right side of the entry price: stopLoss < entry
\* < takeProfit for BUY, takeProfit < entry < stopLoss for SELL, in the ATR
\* branch and in the percentage branch, for every plan and ATR.
C30_LevelsOnTheirSide ==
    (ret.op = "calculateSLTP" /\ feed.signal \in {"BUY", "SELL"}) =>
        /\ ret.value # null
        /\ feed.signal = "BUY" =>
            /\ ret.value[1].stopLoss < feed.price * 1000
            /\ feed.price * 1000 < ret.value[1].takeProfit
        /\ feed.signal = "SELL" =>
            /\ ret.value[1].takeProfit < feed.price * 1000
            /\ feed.price * 1000 < ret.value[1].stopLoss

C30_Witness ==
    /\ ret.op = "calculateSLTP"
    /\ feed.signal = "SELL"
    /\ feed.plan = "medium"
    /\ feed.atr * 1000 = feed.price
    /\ ret.value # null
    /\ ret.value[1].stopLoss = feed.price * 1020

-----------------------------------------------------------------------------
(* Properties of analyzeSymbol (SpecEngine) *)

\* the bars the cache holds for the analysed symbol, none for an untracked one
BarsHeld(tf) ==
    IF ret.args[1] \in Symbols THEN Len(ohlc.cache[ret.args[1]][tf]) ELSE 0

\* C27: a timeframe with fewer bars than an analysis needs takes no part in
\* the vote and raises nothing; with no timeframe left the result is HOLD,
\* confidence 0 and sltp null, whatever the symbol and the plan.
C27_ShortTimeframesOmitted ==
    ret.op = "analyzeSymbol" =>
        /\ ret.kind = "value"
        /\ \A tf \in Timeframes :
            BarsHeld(tf) < minAnalysisBars => tf \notin ret.value.timeframes
        /\ ret.value.timeframes = {} =>
            /\ ret.value.votes = [BUY |-> 0, SELL |-> 0, HOLD |-> 0]
            /\ ret.value.signal = "HOLD"
            /\ ret.value.confidence = 0
            /\ ret.value.sltp = null

C27_Witness ==
    /\ ret.op = "analyzeSymbol"
    /\ ret.args[1] \in Symbols
    /\ ret.args[2] = "medium"
    /\ \A tf \in Timeframes : BarsHeld(tf) > 0
    /\ ret.value.timeframes = {}
    /\ ret.value.signal = "HOLD"

\* C29: the result carries risk levels exactly when the signal is BUY or SELL
\* and the 1h timeframe had the bars to be analysed.
C29_RiskLevelsIffSignalAnd1h ==
    ret.op = "analyzeSymbol" =>
        (ret.value.sltp # null <=>
            (ret.value.signal \in {"BUY", "SELL"} /\ BarsHeld("1h") >= minAnalysisBars))

C29_Witness ==
    /\ ret.op = "analyzeSymbol"
    /\ ret.value.signal = "SELL"
    /\ BarsHeld("1h") >= minAnalysisBars
    /\ BarsHeld("1m") < minAnalysisBars
    /\ ret.value.sltp # null

\* the legs before the minimum distance is enforced, as distances from the
\* entry in thousandths
ComputedStopDistance ==
    IF useATR(feed.price, feed.atr)
    THEN feed.atr * planOr(atrMultipliers, feed.plan).sl * 100
    ELSE feed.price * planOr(percentageFallback, feed.plan).sl * 10

ComputedTargetDistance ==
    IF useATR(feed.price, feed.atr)
    THEN feed.atr * planOr(atrMultipliers, feed.plan).tp * 100
    ELSE feed.price * planOr(percentageFallback, feed.plan).tp * 10

\* C31: both legs are at least 0.5% of the entry price away from the entry; a
\* computed stop closer than that is replaced by the one at 2%, a computed
\* target closer than that by the one at 5%.
C31_MinimumDistance ==
    (ret.op = "calculateSLTP" /\ feed.signal \in {"BUY", "SELL"}) =>
        /\ Abs(ret.value[1].stopLoss - feed.price * 1000) >= feed.price * 5
        /\ Abs(ret.value[1].takeProfit - feed.price * 1000) >= feed.price * 5
        /\ ComputedStopDistance < feed.price * 5 =>
                Abs(ret.value[1].stopLoss - feed.price * 1000) = feed.price * 20
        /\ ComputedTargetDistance < feed.price * 5 =>
                Abs(ret.value[1].takeProfit - feed.price * 1000) = feed.price * 50
        /\ ComputedStopDistance >= feed.price * 5 =>
                Abs(ret.value[1].stopLoss - feed.price * 1000) = ComputedStopDistance
        /\ ComputedTargetDistance >= feed.price * 5 =>
                Abs(ret.value[1].takeProfit - feed.price * 1000) = ComputedTargetDistance

C31_Witness ==
    /\ ret.op = "calculateSLTP"
    /\ feed.signal = "BUY"
    /\ useATR(feed.price, feed.atr)
    /\ ComputedStopDistance < feed.price * 5
    /\ ComputedTargetDistance < feed.price * 5
    /\ ret.value[1] = [stopLoss |-> feed.price * 980, takeProfit |-> feed.price * 1050]

-----------------------------------------------------------------------------
(* Properties of the alert loop (SpecAlert) *)

\* C33: an alert is sent only for a change from HOLD to BUY or from HOLD to
\* SELL, and never for a signal that the check before it had returned too.
C33_AlertOnlyFromHold ==
    [][feed'.alertSent # feed.alertSent =>
            /\ feed'.lastAlert.from = "HOLD"
            /\ feed'.lastAlert.to \in {"BUY", "SELL"}
            /\ feed.lastChecked[feed'.lastAlert.symbol] # feed'.lastAlert.to]_vars

-----------------------------------------------------------------------------
(* Properties of the paper-trading bot (SpecPaper) *)

\* C34: whatever runs of checkAndExecuteTrades have started, overlapping at
\* their awaits or not, the bot holds at most maxPositions open positions and
\* at most one open position per symbol.
C34_PositionsBounded ==
    /\ Len(feed.positions) <= maxPositions
    /\ \A k, j \in 1..Len(feed.positions) :
           feed.positions[k] = feed.positions[j] => k = j

\* the portfolio is full while two runs are under way, one paused after its
\* own entry and one about to look at a symbol that has no position
C34_Witness ==
    /\ Len(feed.positions) = maxPositions
    /\ \E i, j \in 1..Len(feed.runs) :
           /\ i # j
           /\ feed.runs[i].pc = "sendTelegramNotification"
           /\ feed.runs[j].pc = "analyzeSymbol"
           /\ existingPosition(feed.positions, Head(feed.runs[j].left)) = {}

-----------------------------------------------------------------------------
(* Order of the completed candles (SpecStale: ticks of any timestamp and   *)
(* historical loads)                                                       *)

\* C35: after any updateTick and loadHistoricalBars calls the completed candles
\* kept for a symbol and timeframe have strictly increasing bucket starts,
\* oldest first: no bucket twice, no candle after a candle of a later bucket.
C35_BucketsIncreasing ==
    \A s \in Symbols, tf \in Timeframes :
        \A i, j \in 1..Len(ohlc.cache[s][tf]) :
            i < j => ohlc.cache[s][tf][i].time < ohlc.cache[s][tf][j].time

-----------------------------------------------------------------------------
(* One of each runtime object (SpecFeed) *)

\* the sockets with handlers attached that are connecting or open
LiveSockets(f) ==
    f.orphans["connecting"] + f.orphans["openOk"] + f.orphans["openBad"]
        + (IF f.ws \in {"connecting", "open"} THEN 1 ELSE 0)

ActivePings(f) == f.pingLeaked + (IF f.pingInterval THEN 1 ELSE 0)

ActiveRenewals(f) == f.renewLeaked + (IF f.tokenRenewalInterval THEN 1 ELSE 0)

\* C36: at every moment the DataFeedManager has at most one live socket with
\* handlers attached, at most one active ping timer, at most one active renewal
\* timer and at most one pending reconnect timer.
C36_AtMostOneOfEach ==
    /\ LiveSockets(feed) <= 1
    /\ ActivePings(feed) <= 1
    /\ ActiveRenewals(feed) <= 1
    /\ feed.reconnectTimers <= 1

-----------------------------------------------------------------------------
(* Properties of the BinanceWS connector (SpecBinance) *)

\* C37: once disconnect() has run on a connector that had a socket, no socket
\* is created any more: a reconnect timer that the close event schedules, or
\* one pending from before, runs connect(), which returns at once.
C37_NoSocketAfterDisconnect ==
    [][feed.disconnected => feed'.created = feed.created]_vars

\* after disconnect() the socket it closed has emitted 'close', the reconnect
\* timer armed by that event has fired and connect() has returned, disabled
C37_Witness ==
    /\ feed.disconnected
    /\ feed.lastConnect = "disabled"
    /\ feed.reconnectAttempts > 0
    /\ feed.timers = 0
    /\ feed.ws = "none"

-----------------------------------------------------------------------------
(* Properties of HTTPFallback.fetchPrice (SpecFetch) *)

\* every request the call has made so far has failed
EveryRequestFailed(f) == f.failed = f.requests

-----------------------------------------------------------------------------
(* Plan names outside the plan tables (SpecEngine) *)

=============================================================================
